---- MODULE Spec2Model ----
(***************************************************************************)
(* A model of go-winjob: the limit application protocol of JobObject       *)
(* (query -> merge -> set, grouped by information class), Create, the      *)
(* accounting counters, and the completion-port notification loop.         *)
(*                                                                         *)
(* Bit masks (LimitFlags, UIRestrictionsClass, ControlFlags) are modelled  *)
(* as the set of the single-bit constants that are set in the mask:        *)
(*   m |= f   is  m \cup {f},   m &^= f  is  m \ {f},                      *)
(*   m & f > 0  is  f \in m,    m > 0    is  m # {}.                       *)
(***************************************************************************)
EXTENDS Integers, Sequences, FiniteSets, TLC

(***************************************************************************)
(* Bounds of the model.                                                    *)
(***************************************************************************)
\* Largest value given to a value-bearing limit.
MaxVal == 2
\* Longest limit list handed to SetLimit / ResetLimit / Create.
MaxLimits == 3
\* Number of job handles the OS hands out in one behaviour.
MaxHandles == 1
MaxThreads == 3
MaxPid == 2
MaxTicks == 2
MaxActors == 2

(***************************************************************************)
(* jobapi constants.                                                       *)
(***************************************************************************)
\* syscall.InvalidHandle, ^Handle(0): all bits set.
InvalidHandle == -1

JobObjectBasicUIRestrictions == 4
JobObjectBasicAndIoAccountingInformation == 8
JobObjectExtendedLimitInformation == 9
JobObjectCpuRateControlInformation == 15
JobObjectNetRateControlInformation == 32

JOB_OBJECT_LIMIT_WORKINGSET == 1
JOB_OBJECT_LIMIT_PROCESS_TIME == 2
JOB_OBJECT_LIMIT_JOB_TIME == 4
JOB_OBJECT_LIMIT_ACTIVE_PROCESS == 8
JOB_OBJECT_LIMIT_AFFINITY == 16
JOB_OBJECT_LIMIT_PRIORITY_CLASS == 32
JOB_OBJECT_LIMIT_PRESERVE_JOB_TIME == 64
JOB_OBJECT_LIMIT_SCHEDULING_CLASS == 128
JOB_OBJECT_LIMIT_PROCESS_MEMORY == 256
JOB_OBJECT_LIMIT_JOB_MEMORY == 512
JOB_OBJECT_LIMIT_DIE_ON_UNHANDLED_EXCEPTION == 1024
JOB_OBJECT_LIMIT_BREAKAWAY_OK == 2048
JOB_OBJECT_LIMIT_SILENT_BREAKAWAY_OK == 4096
JOB_OBJECT_LIMIT_KILL_ON_JOB_CLOSE == 8192
JOB_OBJECT_LIMIT_SUBSET_AFFINITY == 16384

JOB_OBJECT_UILIMIT_HANDLES == 1
JOB_OBJECT_UILIMIT_READCLIPBOARD == 2
JOB_OBJECT_UILIMIT_WRITECLIPBOARD == 4
JOB_OBJECT_UILIMIT_SYSTEMPARAMETERS == 8
JOB_OBJECT_UILIMIT_DISPLAYSETTINGS == 16
JOB_OBJECT_UILIMIT_GLOBALATOMS == 32
JOB_OBJECT_UILIMIT_DESKTOP == 64
JOB_OBJECT_UILIMIT_EXITWINDOWS == 128

JOB_OBJECT_CPU_RATE_CONTROL_ENABLE == 1
JOB_OBJECT_CPU_RATE_CONTROL_WEIGHT_BASED == 2
JOB_OBJECT_CPU_RATE_CONTROL_HARD_CAP == 4
JOB_OBJECT_CPU_RATE_CONTROL_NOTIFY == 8
JOB_OBJECT_CPU_RATE_CONTROL_MIN_MAX_RATE == 16

JOB_OBJECT_NET_RATE_CONTROL_ENABLE == 1
JOB_OBJECT_NET_RATE_CONTROL_MAX_BANDWIDTH == 2
JOB_OBJECT_NET_RATE_CONTROL_DSCP_TAG == 4

\* Time limits and counters are specified in 100-nanosecond ticks.
timeFraction == 100

JOB_OBJECT_MSG_END_OF_JOB_TIME == 1
JOB_OBJECT_MSG_END_OF_PROCESS_TIME == 2
JOB_OBJECT_MSG_ACTIVE_PROCESS_LIMIT == 3
JOB_OBJECT_MSG_ACTIVE_PROCESS_ZERO == 4
JOB_OBJECT_MSG_NEW_PROCESS == 6
JOB_OBJECT_MSG_EXIT_PROCESS == 7
JOB_OBJECT_MSG_ABNORMAL_EXIT_PROCESS == 8
JOB_OBJECT_MSG_PROCESS_MEMORY_LIMIT == 9
JOB_OBJECT_MSG_JOB_MEMORY_LIMIT == 10
JOB_OBJECT_MSG_NOTIFICATION_LIMIT == 11
JOB_OBJECT_MSG_JOB_CYCLE_TIME_LIMIT == 12
JOB_OBJECT_MSG_SILO_TERMINATED == 13

\* ERROR_ABANDONED_WAIT_0 (0x2df)
ErrAbandoned == 735

(***************************************************************************)
(* The information blocks (zero values of the jobapi structures).          *)
(***************************************************************************)
JOBOBJECT_BASIC_LIMIT_INFORMATION ==
    [PerProcessUserTimeLimit |-> 0,
     PerJobUserTimeLimit     |-> 0,
     LimitFlags              |-> {},
     MinimumWorkingSetSize   |-> 0,
     MaximumWorkingSetSize   |-> 0,
     ActiveProcessLimit      |-> 0,
     Affinity                |-> 0,
     PriorityClass           |-> 0,
     SchedulingClass         |-> 0]

JOBOBJECT_EXTENDED_LIMIT_INFORMATION ==
    [BasicLimitInformation |-> JOBOBJECT_BASIC_LIMIT_INFORMATION,
     ProcessMemoryLimit    |-> 0,
     JobMemoryLimit        |-> 0]

JOBOBJECT_BASIC_UI_RESTRICTIONS == [UIRestrictionsClass |-> {}]

JOBOBJECT_CPU_RATE_CONTROL_INFORMATION == [ControlFlags |-> {}, Value |-> 0]

JOBOBJECT_NET_RATE_CONTROL_INFORMATION ==
    [MaxBandwidth |-> 0, ControlFlags |-> {}, DscpTag |-> 0]

\* The fourteen accounting fields, in declaration order.
CounterFields ==
    <<"TotalUserTime", "TotalKernelTime", "ThisPeriodTotalUserTime",
      "ThisPeriodTotalKernelTime", "TotalPageFaultCount", "TotalProcesses",
      "ActiveProcesses", "TotalTerminatedProcesses", "ReadOperationCount",
      "WriteOperationCount", "OtherOperationCount", "ReadTransferCount",
      "WriteTransferCount", "OtherTransferCount">>

CounterNames == {CounterFields[i] : i \in 1..Len(CounterFields)}

JOBOBJECT_BASIC_AND_IO_ACCOUNTING_INFORMATION == [f \in CounterNames |-> 0]

\* The zero Counters value (var c Counters).
Counters == [f \in CounterNames |-> 0]

\* The embedded JobInfo of a JobObject: the cached copy of five blocks.
JobInfo ==
    [ExtendedLimits |-> JOBOBJECT_EXTENDED_LIMIT_INFORMATION,
     UIRestrictions |-> JOBOBJECT_BASIC_UI_RESTRICTIONS,
     AccountingInfo |-> JOBOBJECT_BASIC_AND_IO_ACCOUNTING_INFORMATION,
     CPURateControl |-> JOBOBJECT_CPU_RATE_CONTROL_INFORMATION,
     NetRateControl |-> JOBOBJECT_NET_RATE_CONTROL_INFORMATION]

InfoFields == DOMAIN JobInfo

\* A JobObject value: the handle and the embedded JobInfo.
JobObject(h) == [Handle |-> h, JobInfo |-> JobInfo]

(***************************************************************************)
(* limits.go: the basic and extended limits.                               *)
(***************************************************************************)
\* Integer division truncated toward zero (Go's / on int64).
Quo(a, b) == IF a >= 0 THEN a \div b ELSE -((-a) \div b)

basicLimit(flag) == [type |-> "basicLimit", basicLimit |-> flag]

LimitBreakawayOK == basicLimit(JOB_OBJECT_LIMIT_BREAKAWAY_OK)
LimitDieOnUnhandledException == basicLimit(JOB_OBJECT_LIMIT_DIE_ON_UNHANDLED_EXCEPTION)
LimitKillOnJobClose == basicLimit(JOB_OBJECT_LIMIT_KILL_ON_JOB_CLOSE)
LimitPreserveJobTime == basicLimit(JOB_OBJECT_LIMIT_PRESERVE_JOB_TIME)
LimitSubsetAffinity == basicLimit(JOB_OBJECT_LIMIT_SUBSET_AFFINITY)
LimitSilentBreakawayOK == basicLimit(JOB_OBJECT_LIMIT_SILENT_BREAKAWAY_OK)

WithAffinity(x) ==
    [type |-> "affinityLimit", basicLimit |-> JOB_OBJECT_LIMIT_AFFINITY, affinity |-> x]
WithJobMemoryLimit(x) ==
    [type |-> "jobMemoryLimit", basicLimit |-> JOB_OBJECT_LIMIT_JOB_MEMORY, jobMemory |-> x]
WithJobTimeLimit(x) ==
    [type |-> "jobTimeLimit", basicLimit |-> JOB_OBJECT_LIMIT_JOB_TIME,
     jobTime |-> Quo(x, timeFraction)]
WithProcessMemoryLimit(x) ==
    [type |-> "processMemoryLimit", basicLimit |-> JOB_OBJECT_LIMIT_PROCESS_MEMORY,
     processMemory |-> x]
WithProcessTimeLimit(x) ==
    [type |-> "processTimeLimit", basicLimit |-> JOB_OBJECT_LIMIT_PROCESS_TIME,
     processTime |-> Quo(x, timeFraction)]
WithActiveProcessLimit(x) ==
    [type |-> "activeProcessLimit", basicLimit |-> JOB_OBJECT_LIMIT_ACTIVE_PROCESS, procs |-> x]
WithWorkingSetLimit(min, max) ==
    [type |-> "workingSetLimit", basicLimit |-> JOB_OBJECT_LIMIT_WORKINGSET,
     wsMin |-> min, wsMax |-> max]
WithPriorityClassLimit(x) ==
    [type |-> "priorityClassLimit", basicLimit |-> JOB_OBJECT_LIMIT_PRIORITY_CLASS, prio |-> x]
WithSchedulingClassLimit(x) ==
    [type |-> "schedulingClassLimit", basicLimit |-> JOB_OBJECT_LIMIT_SCHEDULING_CLASS,
     schedClass |-> x]

\* The limit types that embed basicLimit.
BasicTypes ==
    {"basicLimit", "affinityLimit", "jobMemoryLimit", "jobTimeLimit",
     "processMemoryLimit", "processTimeLimit", "activeProcessLimit",
     "workingSetLimit", "priorityClassLimit", "schedulingClassLimit"}

\* job.ExtendedLimits.BasicLimitInformation.LimitFlags |= jobapi.LimitFlag(l)
\* A set that leaves the flag of the limit as the only flag.
basicLimit_set_only(l, job) ==
    [job EXCEPT !.JobInfo.ExtendedLimits.BasicLimitInformation.LimitFlags = {l.basicLimit}]

basicLimit_set(l, job) ==
    [job EXCEPT !.JobInfo.ExtendedLimits.BasicLimitInformation.LimitFlags =
        @ \cup {l.basicLimit}]

\* job.ExtendedLimits.BasicLimitInformation.LimitFlags &^= jobapi.LimitFlag(l)
\* A reset that leaves the flag.
basicLimit_reset_keep(l, job) == job

basicLimit_reset(l, job) ==
    [job EXCEPT !.JobInfo.ExtendedLimits.BasicLimitInformation.LimitFlags =
        @ \ {l.basicLimit}]

basicLimit_IsSet(l, job) ==
    l.basicLimit \in job.JobInfo.ExtendedLimits.BasicLimitInformation.LimitFlags

affinityLimit_set(l, job) ==
    basicLimit_set(l,
        [job EXCEPT !.JobInfo.ExtendedLimits.BasicLimitInformation.Affinity = l.affinity])

affinityLimit_LimitValue(job) == job.JobInfo.ExtendedLimits.BasicLimitInformation.Affinity

\* A set that stores the value in the field of the process memory limit.
jobMemoryLimit_set_swapped(l, job) ==
    basicLimit_set(l, [job EXCEPT !.JobInfo.ExtendedLimits.ProcessMemoryLimit = l.jobMemory])

jobMemoryLimit_set(l, job) ==
    basicLimit_set(l, [job EXCEPT !.JobInfo.ExtendedLimits.JobMemoryLimit = l.jobMemory])

jobMemoryLimit_LimitValue(job) == job.JobInfo.ExtendedLimits.JobMemoryLimit

jobTimeLimit_set(l, job) ==
    basicLimit_set(l,
        [job EXCEPT !.JobInfo.ExtendedLimits.BasicLimitInformation.PerJobUserTimeLimit =
            l.jobTime])

\* A LimitValue that returns the ticks as nanoseconds.
jobTimeLimit_LimitValue_ticks(job) ==
    job.JobInfo.ExtendedLimits.BasicLimitInformation.PerJobUserTimeLimit

jobTimeLimit_LimitValue(job) ==
    job.JobInfo.ExtendedLimits.BasicLimitInformation.PerJobUserTimeLimit * timeFraction

processMemoryLimit_set(l, job) ==
    basicLimit_set(l,
        [job EXCEPT !.JobInfo.ExtendedLimits.ProcessMemoryLimit = l.processMemory])

processMemoryLimit_LimitValue(job) == job.JobInfo.ExtendedLimits.ProcessMemoryLimit

processTimeLimit_set(l, job) ==
    basicLimit_set(l,
        [job EXCEPT !.JobInfo.ExtendedLimits.BasicLimitInformation.PerProcessUserTimeLimit =
            l.processTime])

processTimeLimit_LimitValue(job) ==
    job.JobInfo.ExtendedLimits.BasicLimitInformation.PerProcessUserTimeLimit * timeFraction

activeProcessLimit_set(l, job) ==
    basicLimit_set(l,
        [job EXCEPT !.JobInfo.ExtendedLimits.BasicLimitInformation.ActiveProcessLimit =
            l.procs])

activeProcessLimit_LimitValue(job) ==
    job.JobInfo.ExtendedLimits.BasicLimitInformation.ActiveProcessLimit

workingSetLimit_set(l, job) ==
    basicLimit_set(l,
        [job EXCEPT
            !.JobInfo.ExtendedLimits.BasicLimitInformation.MinimumWorkingSetSize = l.wsMin,
            !.JobInfo.ExtendedLimits.BasicLimitInformation.MaximumWorkingSetSize = l.wsMax])

MinWorkingSetSize(job) ==
    job.JobInfo.ExtendedLimits.BasicLimitInformation.MinimumWorkingSetSize

MaxWorkingSetSize(job) ==
    job.JobInfo.ExtendedLimits.BasicLimitInformation.MaximumWorkingSetSize

priorityClassLimit_set(l, job) ==
    basicLimit_set(l,
        [job EXCEPT !.JobInfo.ExtendedLimits.BasicLimitInformation.PriorityClass = l.prio])

priorityClassLimit_LimitValue(job) ==
    job.JobInfo.ExtendedLimits.BasicLimitInformation.PriorityClass

schedulingClassLimit_set(l, job) ==
    basicLimit_set(l,
        [job EXCEPT !.JobInfo.ExtendedLimits.BasicLimitInformation.SchedulingClass =
            l.schedClass])

schedulingClassLimit_LimitValue(job) ==
    job.JobInfo.ExtendedLimits.BasicLimitInformation.SchedulingClass

(***************************************************************************)
(* limits_ui.go: the user-interface restrictions.                          *)
(***************************************************************************)
uiRestriction(flag) == [type |-> "uiRestriction", r |-> flag]

LimitDesktop == uiRestriction(JOB_OBJECT_UILIMIT_DESKTOP)
LimitDisplaySettings == uiRestriction(JOB_OBJECT_UILIMIT_DISPLAYSETTINGS)
LimitExitWindows == uiRestriction(JOB_OBJECT_UILIMIT_EXITWINDOWS)
LimitGlobalAtoms == uiRestriction(JOB_OBJECT_UILIMIT_GLOBALATOMS)
LimitHandles == uiRestriction(JOB_OBJECT_UILIMIT_HANDLES)
LimitSystemParameters == uiRestriction(JOB_OBJECT_UILIMIT_SYSTEMPARAMETERS)
LimitWriteClipboard == uiRestriction(JOB_OBJECT_UILIMIT_WRITECLIPBOARD)
LimitReadClipboard == uiRestriction(JOB_OBJECT_UILIMIT_READCLIPBOARD)

uiRestriction_set(l, job) ==
    [job EXCEPT !.JobInfo.UIRestrictions.UIRestrictionsClass = @ \cup {l.r}]

uiRestriction_reset(l, job) ==
    [job EXCEPT !.JobInfo.UIRestrictions.UIRestrictionsClass = @ \ {l.r}]

uiRestriction_IsSet(l, job) == l.r \in job.JobInfo.UIRestrictions.UIRestrictionsClass

(***************************************************************************)
(* The CPU rate control limit.                                             *)
(***************************************************************************)
CPURate(min, max, weight, hardCap) ==
    [Min |-> min, Max |-> max, Weight |-> weight, HardCap |-> hardCap]

\* cpuLimit is a CPURate; LimitCPU is its zero value.
cpuLimit(x) ==
    [type |-> "cpuLimit", Min |-> x.Min, Max |-> x.Max, Weight |-> x.Weight,
     HardCap |-> x.HardCap]

LimitCPU == cpuLimit(CPURate(0, 0, 0, 0))
WithCPUHardCapLimit(v) == cpuLimit(CPURate(0, 0, 0, v))
WithCPUWeightedLimit(v) == cpuLimit(CPURate(0, 0, v, 0))
WithCPUMinMaxLimit(min, max) == cpuLimit(CPURate(min, max, 0, 0))

\* binary.Write(&b, binary.LittleEndian, x) of a uint16 and of a uint32.
PutUint16(x) == <<x % 256, (x \div 256) % 256>>
PutUint32(x) ==
    <<x % 256, (x \div 256) % 256, (x \div 65536) % 256, (x \div 16777216) % 256>>
\* binary.LittleEndian.Uint16 / Uint32 of a byte slice.
Uint16(b) == b[1] + 256 * b[2]
Uint32(b) == b[1] + 256 * b[2] + 65536 * b[3] + 16777216 * b[4]

cpuLimit_reset(l, job) == [job EXCEPT !.JobInfo.CPURateControl.ControlFlags = {}]

cpuLimit_IsSet(l, job) == job.JobInfo.CPURateControl.ControlFlags # {}

cpuLimit_LimitValue(job) ==
    LET cf == job.JobInfo.CPURateControl.ControlFlags
        v  == job.JobInfo.CPURateControl.Value
        b  == PutUint32(v)
    IN  CASE JOB_OBJECT_CPU_RATE_CONTROL_HARD_CAP \in cf -> CPURate(0, 0, 0, v)
          [] JOB_OBJECT_CPU_RATE_CONTROL_HARD_CAP \notin cf
             /\ JOB_OBJECT_CPU_RATE_CONTROL_WEIGHT_BASED \in cf -> CPURate(0, 0, v, 0)
          [] JOB_OBJECT_CPU_RATE_CONTROL_HARD_CAP \notin cf
             /\ JOB_OBJECT_CPU_RATE_CONTROL_WEIGHT_BASED \notin cf
             /\ JOB_OBJECT_CPU_RATE_CONTROL_MIN_MAX_RATE \in cf ->
                CPURate(Uint16(SubSeq(b, 1, 2)), Uint16(SubSeq(b, 3, 4)), 0, 0)
          [] OTHER -> CPURate(0, 0, 0, 0)

\* The mode flag cpuLimit.set picks (the empty mask when no case matches).
cpuLimit_f(l) ==
    CASE l.HardCap > 0 -> {JOB_OBJECT_CPU_RATE_CONTROL_HARD_CAP}
      [] l.HardCap = 0 /\ l.Weight > 0 -> {JOB_OBJECT_CPU_RATE_CONTROL_WEIGHT_BASED}
      [] l.HardCap = 0 /\ l.Weight = 0 /\ l.Max > 0 ->
            {JOB_OBJECT_CPU_RATE_CONTROL_MIN_MAX_RATE}
      [] OTHER -> {}

cpuLimit_set(l, job) ==
    LET v == CASE l.HardCap > 0 -> l.HardCap
               [] l.HardCap = 0 /\ l.Weight > 0 -> l.Weight
               [] l.HardCap = 0 /\ l.Weight = 0 /\ l.Max > 0 ->
                     Uint32(PutUint16(l.Min) \o PutUint16(l.Max))
               [] OTHER -> job.JobInfo.CPURateControl.Value
    IN  [job EXCEPT
            !.JobInfo.CPURateControl.Value = v,
            !.JobInfo.CPURateControl.ControlFlags =
                cpuLimit_f(l) \cup {JOB_OBJECT_CPU_RATE_CONTROL_ENABLE,
                                    JOB_OBJECT_CPU_RATE_CONTROL_NOTIFY}]

(***************************************************************************)
(* The net rate control limits: independently settable bits of one control *)
(* block (bandwidth ceiling and DSCP tag).                                 *)
(***************************************************************************)
WithOutgoingBandwidthLimit(x) == [type |-> "netBandwidthLimit", bandwidth |-> x]
WithDSCPTag(x) == [type |-> "netDSCPTagLimit", tag |-> x]

netBandwidthLimit_set(l, job) ==
    [job EXCEPT
        !.JobInfo.NetRateControl.MaxBandwidth = l.bandwidth,
        !.JobInfo.NetRateControl.ControlFlags =
            @ \cup {JOB_OBJECT_NET_RATE_CONTROL_ENABLE,
                    JOB_OBJECT_NET_RATE_CONTROL_MAX_BANDWIDTH}]

netBandwidthLimit_reset(l, job) ==
    [job EXCEPT !.JobInfo.NetRateControl.ControlFlags =
        @ \ {JOB_OBJECT_NET_RATE_CONTROL_MAX_BANDWIDTH}]

netBandwidthLimit_IsSet(l, job) ==
    JOB_OBJECT_NET_RATE_CONTROL_MAX_BANDWIDTH \in job.JobInfo.NetRateControl.ControlFlags

netBandwidthLimit_LimitValue(job) == job.JobInfo.NetRateControl.MaxBandwidth

netDSCPTagLimit_set(l, job) ==
    [job EXCEPT
        !.JobInfo.NetRateControl.DscpTag = l.tag,
        !.JobInfo.NetRateControl.ControlFlags =
            @ \cup {JOB_OBJECT_NET_RATE_CONTROL_ENABLE,
                    JOB_OBJECT_NET_RATE_CONTROL_DSCP_TAG}]

netDSCPTagLimit_reset(l, job) ==
    [job EXCEPT !.JobInfo.NetRateControl.ControlFlags =
        @ \ {JOB_OBJECT_NET_RATE_CONTROL_DSCP_TAG}]

netDSCPTagLimit_IsSet(l, job) ==
    JOB_OBJECT_NET_RATE_CONTROL_DSCP_TAG \in job.JobInfo.NetRateControl.ControlFlags

netDSCPTagLimit_LimitValue(job) == job.JobInfo.NetRateControl.DscpTag

(***************************************************************************)
(* The Limit interface: dispatch on the dynamic type of the limit.         *)
(***************************************************************************)
set(limit, job) ==
    CASE limit.type = "basicLimit" -> basicLimit_set(limit, job)
      [] limit.type = "affinityLimit" -> affinityLimit_set(limit, job)
      [] limit.type = "jobMemoryLimit" -> jobMemoryLimit_set(limit, job)
      [] limit.type = "jobTimeLimit" -> jobTimeLimit_set(limit, job)
      [] limit.type = "processMemoryLimit" -> processMemoryLimit_set(limit, job)
      [] limit.type = "processTimeLimit" -> processTimeLimit_set(limit, job)
      [] limit.type = "activeProcessLimit" -> activeProcessLimit_set(limit, job)
      [] limit.type = "workingSetLimit" -> workingSetLimit_set(limit, job)
      [] limit.type = "priorityClassLimit" -> priorityClassLimit_set(limit, job)
      [] limit.type = "schedulingClassLimit" -> schedulingClassLimit_set(limit, job)
      [] limit.type = "uiRestriction" -> uiRestriction_set(limit, job)
      [] limit.type = "cpuLimit" -> cpuLimit_set(limit, job)
      [] limit.type = "netBandwidthLimit" -> netBandwidthLimit_set(limit, job)
      [] limit.type = "netDSCPTagLimit" -> netDSCPTagLimit_set(limit, job)

reset(limit, job) ==
    CASE limit.type \in BasicTypes -> basicLimit_reset(limit, job)
      [] limit.type = "uiRestriction" -> uiRestriction_reset(limit, job)
      [] limit.type = "cpuLimit" -> cpuLimit_reset(limit, job)
      [] limit.type = "netBandwidthLimit" -> netBandwidthLimit_reset(limit, job)
      [] limit.type = "netDSCPTagLimit" -> netDSCPTagLimit_reset(limit, job)

IsSet(limit, job) ==
    CASE limit.type \in BasicTypes -> basicLimit_IsSet(limit, job)
      [] limit.type = "uiRestriction" -> uiRestriction_IsSet(limit, job)
      [] limit.type = "cpuLimit" -> cpuLimit_IsSet(limit, job)
      [] limit.type = "netBandwidthLimit" -> netBandwidthLimit_IsSet(limit, job)
      [] limit.type = "netDSCPTagLimit" -> netDSCPTagLimit_IsSet(limit, job)

\* Value(job): the boolean flag limits and the working-set limit inherit
\* basicLimit.Value, which returns IsSet.
Value(limit, job) ==
    CASE limit.type \in {"basicLimit", "workingSetLimit"} -> basicLimit_IsSet(limit, job)
      [] limit.type = "affinityLimit" -> affinityLimit_LimitValue(job)
      [] limit.type = "jobMemoryLimit" -> jobMemoryLimit_LimitValue(job)
      [] limit.type = "jobTimeLimit" -> jobTimeLimit_LimitValue(job)
      [] limit.type = "processMemoryLimit" -> processMemoryLimit_LimitValue(job)
      [] limit.type = "processTimeLimit" -> processTimeLimit_LimitValue(job)
      [] limit.type = "activeProcessLimit" -> activeProcessLimit_LimitValue(job)
      [] limit.type = "priorityClassLimit" -> priorityClassLimit_LimitValue(job)
      [] limit.type = "schedulingClassLimit" -> schedulingClassLimit_LimitValue(job)
      [] limit.type = "uiRestriction" -> uiRestriction_IsSet(limit, job)
      [] limit.type = "cpuLimit" -> cpuLimit_LimitValue(job)
      [] limit.type = "netBandwidthLimit" -> netBandwidthLimit_LimitValue(job)
      [] limit.type = "netDSCPTagLimit" -> netDSCPTagLimit_LimitValue(job)

(***************************************************************************)
(* job_object.go: information classes and the cache.                       *)
(***************************************************************************)
resolveRequiredInfoClass(limit) ==
    CASE limit.type = "uiRestriction" -> JobObjectBasicUIRestrictions
      [] limit.type = "cpuLimit" -> JobObjectCpuRateControlInformation
      [] limit.type \in {"netBandwidthLimit", "netDSCPTagLimit"} ->
            JobObjectNetRateControlInformation
      [] OTHER -> JobObjectExtendedLimitInformation

\* The field of JobInfo that holds the block of an information class.
infoPtr(infoClass) ==
    CASE infoClass = JobObjectBasicAndIoAccountingInformation -> "AccountingInfo"
      [] infoClass = JobObjectExtendedLimitInformation -> "ExtendedLimits"
      [] infoClass = JobObjectBasicUIRestrictions -> "UIRestrictions"
      [] infoClass = JobObjectCpuRateControlInformation -> "CPURateControl"
      [] infoClass = JobObjectNetRateControlInformation -> "NetRateControl"

\* The four limit classes in the order QueryLimits queries them.
LimitInfoClasses ==
    <<JobObjectExtendedLimitInformation, JobObjectBasicUIRestrictions,
      JobObjectCpuRateControlInformation, JobObjectNetRateControlInformation>>

\* Whether the flag field of a limit block of info is non-zero.
blockIsSet(info, infoClass) ==
    CASE infoClass = JobObjectExtendedLimitInformation ->
            info.ExtendedLimits.BasicLimitInformation.LimitFlags # {}
      [] infoClass = JobObjectBasicUIRestrictions ->
            info.UIRestrictions.UIRestrictionsClass # {}
      [] infoClass = JobObjectCpuRateControlInformation ->
            info.CPURateControl.ControlFlags # {}
      [] infoClass = JobObjectNetRateControlInformation ->
            info.NetRateControl.ControlFlags # {}

\* A limitInfoClassesSet that reports every block as set.
limitInfoClassesSet_all(job) == LimitInfoClasses

limitInfoClassesSet(job) ==
    SelectSeq(LimitInfoClasses, LAMBDA c : blockIsSet(job.JobInfo, c))

(***************************************************************************)
(* The OS job API boundary.  A world w is the part of the state one        *)
(* operation reads and writes:                                             *)
(*   w.job      the JobObject the caller operates on                       *)
(*   w.os       the blocks of the OS job object                            *)
(*   w.handles  the job handles that are open                              *)
(*   w.proc     the process of the command handed to Assign / Start        *)
(*   w.fault    the call the OS rejects during this operation (if any)     *)
(*   w.log      the OS calls (and cache merges) made so far, in order      *)
(*   w.err      the error of the last call ("nil" when it succeeded)       *)
(***************************************************************************)
nil == [syscall |-> "", errno |-> 0]
ERROR_INVALID_HANDLE == 6
ERROR_INVALID_PARAMETER == 87

NewSyscallError(syscall, errno) == [syscall |-> syscall, errno |-> errno]

NoFault == [call |-> "", class |-> 0]
Fault(call, class) == [call |-> call, class |-> class]

\* The process of the command: not started ("none"), created with suspended
\* threads, running, or exited; inJob tells whether it is a member of the job.
NoProcess == [state |-> "none", inJob |-> FALSE]

World(j, o, hs, p, f) ==
    [job |-> j, os |-> o, handles |-> hs, proc |-> p, fault |-> f,
     log |-> <<>>, err |-> nil]

\* The errno of an OS call on the job handle (0 when the OS accepts it).
lastErr(w, call, class) ==
    IF w.job.Handle \notin w.handles THEN ERROR_INVALID_HANDLE
    ELSE IF w.fault = Fault(call, class) THEN ERROR_INVALID_PARAMETER
    ELSE 0

Logged(w, call, class, errno) ==
    Append(w.log, [call |-> call, class |-> class, ok |-> errno = 0])

\* A QueryInfo that reports success and leaves the cached block as it was.
QueryInfo_keep(w, infoClass) ==
    LET e == lastErr(w, "QueryInfo", infoClass) IN
    [w EXCEPT !.log = Logged(w, "QueryInfo", infoClass, e),
              !.err = IF e # 0 THEN NewSyscallError("QueryInformationJobObject", e) ELSE nil]

\* jobapi.QueryInfo: the OS copies its block into the cache.
QueryInfo(w, infoClass) ==
    LET e == lastErr(w, "QueryInfo", infoClass) IN
    IF e # 0
    THEN [w EXCEPT !.log = Logged(w, "QueryInfo", infoClass, e),
                   !.err = NewSyscallError("QueryInformationJobObject", e)]
    ELSE [w EXCEPT !.log = Logged(w, "QueryInfo", infoClass, e),
                   !.err = nil,
                   !.job.JobInfo[infoPtr(infoClass)] = w.os[infoPtr(infoClass)]]

\* A SetInfo that reports success and leaves the OS-side block as it was.
SetInfo_lost(w, infoClass) ==
    LET e == lastErr(w, "SetInfo", infoClass) IN
    [w EXCEPT !.log = Logged(w, "SetInfo", infoClass, e),
              !.err = IF e # 0 THEN NewSyscallError("SetInformationJobObject", e) ELSE nil]

\* A SetInfo whose block reaches the OS also when the call reports an error.
SetInfo_torn(w, infoClass) ==
    LET e == lastErr(w, "SetInfo", infoClass) IN
    [w EXCEPT !.log = Logged(w, "SetInfo", infoClass, e),
              !.err = IF e # 0 THEN NewSyscallError("SetInformationJobObject", e) ELSE nil,
              !.os[infoPtr(infoClass)] = w.job.JobInfo[infoPtr(infoClass)]]

\* jobapi.SetInfo: the OS takes the cached block.
SetInfo(w, infoClass) ==
    LET e == lastErr(w, "SetInfo", infoClass) IN
    IF e # 0
    THEN [w EXCEPT !.log = Logged(w, "SetInfo", infoClass, e),
                   !.err = NewSyscallError("SetInformationJobObject", e)]
    ELSE [w EXCEPT !.log = Logged(w, "SetInfo", infoClass, e),
                   !.err = nil,
                   !.os[infoPtr(infoClass)] = w.job.JobInfo[infoPtr(infoClass)]]

\* job.sync(fn, infoClasses...): stops at the first error.
RECURSIVE sync(_, _, _)
sync(w, fn, infoClasses) ==
    IF infoClasses = <<>> THEN [w EXCEPT !.err = nil]
    ELSE LET w1 == IF fn = "QueryInfo" THEN QueryInfo(w, Head(infoClasses))
                   ELSE SetInfo(w, Head(infoClasses))
         IN  IF w1.err # nil THEN w1 ELSE sync(w1, fn, Tail(infoClasses))

\* A QueryLimits that goes on to the next block after an error.
QueryLimits_all(w) ==
    LET w1 == QueryInfo(w, LimitInfoClasses[1])
        w2 == QueryInfo(w1, LimitInfoClasses[2])
        w3 == QueryInfo(w2, LimitInfoClasses[3])
    IN  QueryInfo(w3, LimitInfoClasses[4])

QueryLimits(w) == sync(w, "QueryInfo", LimitInfoClasses)

\* An iteration that queries the block of every limit, queried before or not.
applyOne_requery(w, isSet, limit, classesSet) ==
    LET infoClass == resolveRequiredInfoClass(limit)
        w1 == sync(w, "QueryInfo", <<infoClass>>)
    IN  IF w1.err # nil THEN w1
        ELSE [w1 EXCEPT
                !.job = IF isSet THEN set(limit, w1.job) ELSE reset(limit, w1.job),
                !.log = Append(@, [call |-> "merge", class |-> infoClass, ok |-> TRUE])]

\* An iteration that merges the limit whether or not the query succeeded.
applyOne_unchecked(w, isSet, limit, classesSet) ==
    LET infoClass == resolveRequiredInfoClass(limit)
        w1 == IF infoClass \notin classesSet
              THEN sync(w, "QueryInfo", <<infoClass>>) ELSE w
    IN  [w1 EXCEPT
            !.err = nil,
            !.job = IF isSet THEN set(limit, w1.job) ELSE reset(limit, w1.job),
            !.log = Append(@, [call |-> "merge", class |-> infoClass, ok |-> TRUE])]

\* One iteration of the loop of applyLimit for one limit; classesSet is the
\* set of classes already queried in this call.
applyOne(w, isSet, limit, classesSet) ==
    LET infoClass == resolveRequiredInfoClass(limit)
        w1 == IF infoClass \notin classesSet
              THEN sync(w, "QueryInfo", <<infoClass>>) ELSE w
    IN  IF w1.err # nil THEN w1
        ELSE [w1 EXCEPT
                !.job = IF isSet THEN set(limit, w1.job) ELSE reset(limit, w1.job),
                !.log = Append(@, [call |-> "merge", class |-> infoClass, ok |-> TRUE])]

RECURSIVE applyLoop(_, _, _, _)
applyLoop(w, isSet, limits, classesSet) ==
    IF limits = <<>> THEN w
    ELSE LET w1 == applyOne(w, isSet, Head(limits), classesSet)
         IN  IF w1.err # nil THEN w1
             ELSE applyLoop(w1, isSet, Tail(limits),
                            classesSet \cup {resolveRequiredInfoClass(Head(limits))})

\* The keys of classesSet after the loop went through all the limits.
classesOf(limits) == {resolveRequiredInfoClass(limits[i]) : i \in 1..Len(limits)}

\* The orders in which a Go map with keys S can be ranged over.
MapOrders(S) ==
    {o \in [1..Cardinality(S) -> S] : \A i, j \in 1..Cardinality(S) : o[i] = o[j] => i = j}

\* An applyLimit that writes every limit block whatever the limits are.
applyLimit_sync_all(w, isSet, limits, order) ==
    LET w1 == applyLoop([w EXCEPT !.err = nil], isSet, limits, {})
    IN  IF w1.err # nil THEN w1 ELSE sync(w1, "SetInfo", LimitInfoClasses)

\* applyLimit(set, limits...); order is the iteration order of classesSet.
applyLimit(w, isSet, limits, order) ==
    LET w1 == applyLoop([w EXCEPT !.err = nil], isSet, limits, {})
    IN  IF w1.err # nil THEN w1 ELSE sync(w1, "SetInfo", order)

SetLimit(w, limits, order) == applyLimit(w, TRUE, limits, order)

ResetLimit(w, limits, order) == applyLimit(w, FALSE, limits, order)

\* A HasLimits that answers from the cache without a query.
HasLimits_cached(w) ==
    [w |-> [w EXCEPT !.err = nil], ret |-> Len(limitInfoClassesSet(w.job)) > 0]

\* HasLimits: the world after the call and the boolean it returns.
HasLimits(w) ==
    LET w1 == QueryLimits(w)
    IN  [w |-> w1,
         ret |-> IF w1.err # nil THEN FALSE ELSE Len(limitInfoClassesSet(w1.job)) > 0]

\* A ResetLimits that writes the blocks back without zeroing the cache.
ResetLimits_keep(w) ==
    LET w1 == QueryLimits(w) IN
    IF w1.err # nil THEN w1
    ELSE sync(w1, "SetInfo", limitInfoClassesSet(w1.job))

ResetLimits(w) ==
    LET w1 == QueryLimits(w) IN
    IF w1.err # nil THEN w1
    ELSE sync([w1 EXCEPT !.job.JobInfo = JobInfo], "SetInfo", limitInfoClassesSet(w1.job))

\* QueryCounters(c): the world after the call and the content of c.
QueryCounters(w, c) ==
    LET w1 == sync(w, "QueryInfo", <<JobObjectBasicAndIoAccountingInformation>>)
        a  == w1.job.JobInfo.AccountingInfo
    IN  IF w1.err # nil THEN [w |-> w1, c |-> c]
        ELSE [w |-> w1,
              c |-> [TotalUserTime             |-> a.TotalUserTime,
                     TotalKernelTime           |-> a.TotalUserTime,
                     ThisPeriodTotalUserTime   |-> a.TotalUserTime,
                     ThisPeriodTotalKernelTime |-> a.TotalUserTime,
                     TotalPageFaultCount       |-> a.TotalPageFaultCount,
                     TotalProcesses            |-> a.TotalProcesses,
                     ActiveProcesses           |-> a.ActiveProcesses,
                     TotalTerminatedProcesses  |-> a.TotalTerminatedProcesses,
                     ReadOperationCount        |-> a.ReadOperationCount,
                     WriteOperationCount       |-> a.WriteOperationCount,
                     OtherOperationCount       |-> a.OtherOperationCount,
                     ReadTransferCount         |-> a.ReadTransferCount,
                     WriteTransferCount        |-> a.WriteTransferCount,
                     OtherTransferCount        |-> a.OtherOperationCount]]

\* Counters(): QueryCounters on a new Counters value (var c Counters).
JobObject_Counters(w) == QueryCounters(w, Counters)

\* job.Close(): syscall.Close(job.Handle).
Close(w) ==
    LET e == IF w.job.Handle \in w.handles THEN 0 ELSE ERROR_INVALID_HANDLE IN
    [w EXCEPT !.log = Append(@, [call |-> "CloseHandle", class |-> w.job.Handle,
                                 ok |-> e = 0]),
              !.err = IF e = 0 THEN nil ELSE NewSyscallError("CloseHandle", e),
              !.handles = @ \ {w.job.Handle},
              !.os = IF w.handles \ {w.job.Handle} = {} /\ e = 0 THEN JobInfo ELSE w.os]

\* A Create that returns the error of SetLimit without closing the handle.
Create_leak(w, h, limits, order) ==
    IF w.fault = Fault("CreateJobObject", 0)
    THEN [w |-> [w EXCEPT !.log = Append(@, [call |-> "CreateJobObject", class |-> h,
                                             ok |-> FALSE]),
                          !.err = NewSyscallError("CreateJobObject",
                                                  ERROR_INVALID_PARAMETER)],
          ret |-> "nil",
          err |-> NewSyscallError("CreateJobObject", ERROR_INVALID_PARAMETER)]
    ELSE LET w0 == [w EXCEPT !.log = Append(@, [call |-> "CreateJobObject", class |-> h,
                                                ok |-> TRUE]),
                             !.err = nil,
                             !.handles = @ \cup {h},
                             !.os = JobInfo,
                             !.job = JobObject(h)]
             w1 == IF Len(limits) # 0 THEN SetLimit(w0, limits, order) ELSE w0
         IN  IF w1.err # nil
             THEN [w |-> [w1 EXCEPT !.job = w.job], ret |-> "nil", err |-> w1.err]
             ELSE [w |-> w1, ret |-> "job", err |-> nil]

\* Create(name, limits...): h is the handle CreateJobObject hands out.  The
\* result carries the world, the returned job pointer (ret = "job" or "nil")
\* and the returned error.
Create(w, h, limits, order) ==
    IF w.fault = Fault("CreateJobObject", 0)
    THEN [w |-> [w EXCEPT !.log = Append(@, [call |-> "CreateJobObject", class |-> h,
                                             ok |-> FALSE]),
                          !.err = NewSyscallError("CreateJobObject",
                                                  ERROR_INVALID_PARAMETER)],
          ret |-> "nil",
          err |-> NewSyscallError("CreateJobObject", ERROR_INVALID_PARAMETER)]
    ELSE LET w0 == [w EXCEPT !.log = Append(@, [call |-> "CreateJobObject", class |-> h,
                                                ok |-> TRUE]),
                             !.err = nil,
                             !.handles = @ \cup {h},
                             !.os = JobInfo,
                             !.job = JobObject(h)]
             w1 == IF Len(limits) # 0 THEN SetLimit(w0, limits, order) ELSE w0
         IN  IF w1.err # nil
             THEN [w |-> [Close(w1) EXCEPT !.job = w.job], ret |-> "nil", err |-> w1.err]
             ELSE [w |-> w1, ret |-> "job", err |-> nil]

(***************************************************************************)
(* Processes: Assign, Contains, Terminate and the launch coordinator.      *)
(***************************************************************************)
Call(w, call, class, errno, syscall) ==
    [w EXCEPT !.log = Append(@, [call |-> call, class |-> class, ok |-> errno = 0]),
              !.err = IF errno = 0 THEN nil ELSE NewSyscallError(syscall, errno)]

\* An OpenWithAccess that fills the cache of the new JobObject from the OS.
OpenWithAccess_queried(w, h) ==
    IF w.fault = Fault("OpenJobObject", 0)
    THEN [w |-> Call(w, "OpenJobObject", h, ERROR_INVALID_PARAMETER, "OpenJobObject"),
          ret |-> "nil",
          err |-> NewSyscallError("OpenJobObject", ERROR_INVALID_PARAMETER)]
    ELSE [w |-> [Call(w, "OpenJobObject", h, 0, "OpenJobObject")
                   EXCEPT !.handles = @ \cup {h},
                          !.job = [Handle |-> h, JobInfo |-> w.os]],
          ret |-> "job", err |-> nil]

\* OpenWithAccess(name, access): the handle h to the existing OS job and a
\* JobObject with an empty cache.
OpenWithAccess(w, h) ==
    IF w.fault = Fault("OpenJobObject", 0)
    THEN [w |-> Call(w, "OpenJobObject", h, ERROR_INVALID_PARAMETER, "OpenJobObject"),
          ret |-> "nil",
          err |-> NewSyscallError("OpenJobObject", ERROR_INVALID_PARAMETER)]
    ELSE [w |-> [Call(w, "OpenJobObject", h, 0, "OpenJobObject")
                   EXCEPT !.handles = @ \cup {h},
                          !.job = JobObject(h)],
          ret |-> "job", err |-> nil]

\* Open(name): OpenWithAccess with JOB_OBJECT_ALL_ACCESS.
Open(w, h) == OpenWithAccess(w, h)

\* A withProcessHandle that closes the process handle only when fn succeeded.
withProcessHandle_leak(w, fn) ==
    LET eOpen == IF w.proc.state \in {"none", "exited"} \/ w.fault = Fault("OpenProcess", 0)
                 THEN ERROR_INVALID_PARAMETER ELSE 0
        w1 == Call(w, "OpenProcess", 0, eOpen, "OpenProcess")
        eFn == lastErr(w1, fn, 0)
        w2 == Call(w1, fn, 0, eFn, fn)
        w3 == IF eFn = 0 /\ fn = "AssignProcessToJobObject"
              THEN [w2 EXCEPT !.proc.inJob = TRUE] ELSE w2
    IN  IF eOpen # 0 THEN w1
        ELSE IF eFn # 0 THEN w3
        ELSE [w3 EXCEPT !.log = Append(@, [call |-> "CloseHandle(hProcess)", class |-> 0,
                                           ok |-> TRUE])]

\* withProcessHandle(pid, access, fn): fn is the job call made with the
\* process handle, "AssignProcessToJobObject" or "IsProcessInJob".
withProcessHandle(w, fn) ==
    LET eOpen == IF w.proc.state \in {"none", "exited"} \/ w.fault = Fault("OpenProcess", 0)
                 THEN ERROR_INVALID_PARAMETER ELSE 0
        w1 == Call(w, "OpenProcess", 0, eOpen, "OpenProcess")
        eFn == lastErr(w1, fn, 0)
        w2 == Call(w1, fn, 0, eFn, fn)
        w3 == IF eFn = 0 /\ fn = "AssignProcessToJobObject"
              THEN [w2 EXCEPT !.proc.inJob = TRUE] ELSE w2
    IN  IF eOpen # 0 THEN w1
        ELSE [w3 EXCEPT !.log = Append(@, [call |-> "CloseHandle(hProcess)", class |-> 0,
                                           ok |-> TRUE])]

Assign(w) == withProcessHandle(w, "AssignProcessToJobObject")

\* Contains(p): the world after the call and the boolean found.
Contains(w) ==
    LET w1 == withProcessHandle(w, "IsProcessInJob")
    IN  [w |-> w1, ret |-> IF w1.err = nil THEN w1.proc.inJob ELSE FALSE]

\* Terminate(): TerminateWithExitCode(1).
Terminate(w) ==
    LET e == lastErr(w, "TerminateJobObject", 0)
        w1 == Call(w, "TerminateJobObject", 1, e, "TerminateJobObject")
    IN  IF e = 0 /\ w.proc.inJob /\ w.proc.state \in {"suspended", "running"}
        THEN [w1 EXCEPT !.proc.state = "exited"] ELSE w1

\* A Resume whose failed ResumeThread leaves the thread running.
Resume_anyway(w) ==
    LET e == IF w.proc.state # "suspended" \/ w.fault = Fault("ResumeThread", 0)
             THEN ERROR_INVALID_PARAMETER ELSE 0
        w1 == Call(w, "ResumeThread", 0, e, "ResumeThread")
    IN  [w1 EXCEPT !.proc.state = "running"]

\* Resume(cmd): ResumeProcess(cmd.Process.Pid).
Resume(w) ==
    LET e == IF w.proc.state # "suspended" \/ w.fault = Fault("ResumeThread", 0)
             THEN ERROR_INVALID_PARAMETER ELSE 0
        w1 == Call(w, "ResumeThread", 0, e, "ResumeThread")
    IN  IF e = 0 THEN [w1 EXCEPT !.proc.state = "running"] ELSE w1

\* An entry of a thread snapshot.
ThreadEntry32(owner, tid) == [OwnerProcessID |-> owner, ThreadID |-> tid]

ErrNoThreadsFound == [syscall |-> "no threads found", errno |-> 0]

\* ResumeThread(tid): OpenThread, ResumeThread and Close of the thread handle.
ResumeThread(w, tid) ==
    LET eOpen == IF w.fault = Fault("OpenThread", 0) THEN ERROR_INVALID_PARAMETER ELSE 0
        w1 == Call(w, "OpenThread", tid, eOpen, "OpenThread")
        e == IF w.fault = Fault("ResumeThread", 0) THEN ERROR_INVALID_PARAMETER ELSE 0
        w2 == Call(w1, "ResumeThread", tid, e, "ResumeThread")
    IN  IF eOpen # 0 THEN w1
        ELSE [w2 EXCEPT !.log = Append(@, [call |-> "CloseHandle(hThread)", class |-> tid,
                                           ok |-> TRUE])]

\* The loop of ResumeProcess: Thread32Next moves to entry i of the snapshot,
\* or reports that there are no more entries.
RECURSIVE ResumeProcessLoop(_, _, _, _)
ResumeProcessLoop(w, snapshot, pid, i) ==
    IF w.fault = Fault("Thread32Next", 0)
    THEN Call(w, "Thread32Next", i, ERROR_INVALID_PARAMETER, "Thread32Next")
    ELSE IF i > Len(snapshot)
    THEN [w EXCEPT !.log = Append(@, [call |-> "Thread32Next", class |-> i, ok |-> FALSE]),
                   !.err = ErrNoThreadsFound]
    ELSE LET w1 == Call(w, "Thread32Next", i, 0, "Thread32Next")
         IN  IF snapshot[i].OwnerProcessID = pid /\ snapshot[i].ThreadID # 0
             THEN ResumeThread(w1, snapshot[i].ThreadID)
             ELSE ResumeProcessLoop(w1, snapshot, pid, i + 1)

\* ResumeProcess(pid) on a system whose thread snapshot is snapshot:
\* Thread32First reads entry 1, and the loop starts with Thread32Next.
ResumeProcess(w, snapshot, pid) ==
    LET eSnap == IF w.fault = Fault("CreateToolhelp32Snapshot", 0)
                 THEN ERROR_INVALID_PARAMETER ELSE 0
        w1 == Call(w, "CreateToolhelp32Snapshot", pid, eSnap, "CreateToolhelp32Snapshot")
        eFirst == IF w.fault = Fault("Thread32First", 0) \/ snapshot = <<>>
                  THEN ERROR_INVALID_PARAMETER ELSE 0
        w2 == Call(w1, "Thread32First", 1, eFirst, "Thread32First")
        w3 == IF eFirst # 0 THEN w2 ELSE ResumeProcessLoop(w2, snapshot, pid, 2)
    IN  IF eSnap # 0 THEN w1
        ELSE [w3 EXCEPT !.log = Append(@, [call |-> "CloseHandle(s)", class |-> 0,
                                           ok |-> TRUE])]

\* A StartInJobObject that does not add CREATE_SUSPENDED to the creation flags.
StartInJobObject_unsuspended(w) ==
    LET e == IF w.fault = Fault("CreateProcess", 0) THEN ERROR_INVALID_PARAMETER ELSE 0
        w1 == Call(w, "CreateProcess", 0, e, "CreateProcess")
        w2 == Assign([w1 EXCEPT !.proc = [state |-> "running", inJob |-> FALSE]])
    IN  IF e # 0 THEN w1
        ELSE IF w2.err # nil THEN w2
        ELSE Resume(w2)

\* StartInJobObject(cmd, job): cmd.Start() with CREATE_SUSPENDED, Assign, Resume.
StartInJobObject(w) ==
    LET e == IF w.fault = Fault("CreateProcess", 0) THEN ERROR_INVALID_PARAMETER ELSE 0
        w1 == Call(w, "CreateProcess", 0, e, "CreateProcess")
        w2 == Assign([w1 EXCEPT !.proc = [state |-> "suspended", inJob |-> FALSE]])
    IN  IF e # 0 THEN w1
        ELSE IF w2.err # nil THEN w2
        ELSE Resume(w2)

\* The rest of Start once StartInJobObject has left the world w1.
StartedInJobObject(w, w1) ==
    IF w1.err # nil
    THEN [w |-> [Close(w1) EXCEPT !.job = w.job], ret |-> "nil", err |-> w1.err]
    ELSE [w |-> w1, ret |-> "job", err |-> nil]

\* The rest of Start once Create has returned c.
Created(w, c) ==
    IF c.err # nil THEN c ELSE StartedInJobObject(w, StartInJobObject(c.w))

\* A Start that creates the job without the limits.
Start_unlimited(w, h, limits, order) == Created(w, Create(w, h, <<>>, <<>>))

\* Start(cmd, limits...): Create("", limits...) and StartInJobObject.
Start(w, h, limits, order) == Created(w, Create(w, h, limits, order))

(***************************************************************************)
(* The state machine: one caller working on one JobObject, the OS job      *)
(* behind it, and another actor changing the same OS job through its own   *)
(* handle.                                                                 *)
(***************************************************************************)
VARIABLES
    job,       \* the JobObject the caller holds
    os,        \* the blocks of the OS job object
    handles,   \* the open job handles of the caller
    nhandles,  \* how many handles the OS has handed out
    proc,      \* the process of the command
    c,         \* the caller's Counters
    U,         \* the limits the caller uses in this behaviour
    threads,   \* the threads of the system, in the order a snapshot lists them
    actors,    \* the JobObjects other flows hold on the OS job, each in its SetLimit
    last,      \* the most recent operation: arguments, result, OS calls
    pending,   \* what the calls since the last disturbance have applied
    port,      \* the completion port of the subscription
    s,         \* the Subscription
    mu,        \* s.mu: the thread that holds it (0 when free)
    loop,      \* the goroutine s.notify(c)
    sink,      \* the channel c handed to Notify
    consumer,  \* the consumer of the channel
    dequeued,  \* the events the loop has obtained from the port
    closer,    \* the threads calling s.Close()
    errRead    \* what s.Err() has returned

jvars == <<job, os, handles, nhandles, proc, c, U, threads, actors, last, pending>>
nvars == <<port, s, mu, loop, sink, consumer, dequeued, closer, errRead>>
vars == <<jvars, nvars>>

\* Every limit kind is in some preset; one behaviour draws its limits from
\* one preset.
FlagPresets ==
    {{l} : l \in {LimitBreakawayOK, LimitDieOnUnhandledException, LimitKillOnJobClose,
                  LimitPreserveJobTime, LimitSubsetAffinity, LimitSilentBreakawayOK,
                  LimitDesktop, LimitDisplaySettings, LimitExitWindows, LimitGlobalAtoms,
                  LimitHandles, LimitSystemParameters, LimitWriteClipboard,
                  LimitReadClipboard}}
    \cup {{LimitBreakawayOK, LimitKillOnJobClose}}

ValuePresets ==
    {{WithAffinity(MaxVal)}, {WithJobMemoryLimit(MaxVal)}, {WithProcessMemoryLimit(MaxVal)},
     {WithActiveProcessLimit(MaxVal)}, {WithSchedulingClassLimit(MaxVal)},
     {WithPriorityClassLimit(MaxVal)}, {WithWorkingSetLimit(MaxVal, MaxVal + 1)},
     {WithJobMemoryLimit(1), WithProcessMemoryLimit(MaxVal)}}

CPUPresets ==
    {{WithCPUHardCapLimit(MaxVal + 1), WithCPUWeightedLimit(1), WithCPUMinMaxLimit(1, MaxVal)},
     {WithCPUHardCapLimit(1), WithCPUMinMaxLimit(MaxVal, 0)}}

MixedPresets ==
    {{LimitBreakawayOK, LimitDesktop, LimitKillOnJobClose},
     {LimitKillOnJobClose, WithAffinity(MaxVal)},
     {WithCPUHardCapLimit(1), WithDSCPTag(MaxVal)}}

JobPresets == {{LimitBreakawayOK, LimitCPU}}

\* The argument lists of SetLimit / ResetLimit / Create / Start.
LimitLists == UNION {[1..n -> U] : n \in 0..MaxLimits}

\* The calls the OS may reject while a limit list is applied.
ApplyFaults(limits) ==
    {NoFault} \cup {Fault(call, k) : call \in {"QueryInfo", "SetInfo"}, k \in classesOf(limits)}

QueryFaults == {NoFault} \cup {Fault("QueryInfo", LimitInfoClasses[i]) : i \in 1..4}

ResetFaults == QueryFaults \cup {Fault("SetInfo", LimitInfoClasses[i]) : i \in 1..4}

\* The calls the OS may reject during an operation on the job handle: on a
\* handle that is not open the OS rejects the first call whatever else may
\* be wrong.
Rejected(faults) == IF job.Handle \in handles THEN faults ELSE {NoFault}

\* The limit classes whose flag field is non-zero in info.
ClassesWithFlags(info) == {k \in {LimitInfoClasses[i] : i \in 1..4} : blockIsSet(info, k)}

\* The record of an operation.  had: the limit classes with a non-zero flag
\* field on the OS side before the call; stale: whether the cached copy of a
\* block the call touches differed from the OS before the call.
Record(op, limits, w, ret) ==
    [op |-> op, limits |-> limits, err |-> w.err, ret |-> ret, log |-> w.log,
     had |-> ClassesWithFlags(os),
     stale |-> \E k \in classesOf(limits) : job.JobInfo[infoPtr(k)] # os[infoPtr(k)]]

NoOp == [op |-> "", limits |-> <<>>, err |-> nil, ret |-> "", log |-> <<>>,
         had |-> {}, stale |-> FALSE]

\* Limits of the same key write the same flag and value field.
Key(limit) ==
    <<limit.type, IF limit.type \in BasicTypes THEN limit.basicLimit
                  ELSE IF limit.type = "uiRestriction" THEN limit.r ELSE 0>>

\* The limits of a list that no later limit of the list overwrites.
Effective(limits) ==
    {limits[i] : i \in {i \in 1..Len(limits) :
                            \A j \in (i + 1)..Len(limits) : Key(limits[j]) # Key(limits[i])}}

NoPending == [mode |-> "", limits |-> {}, had |-> {}]

ReadOps == {"QueryLimits", "HasLimits", "QueryCounters", "Counters", "Contains"}
SetOps == {"SetLimit", "Create", "Start"}

\* pending after operation op with the given limits and error: successive
\* successful calls that set limits accumulate, reads change nothing, and
\* anything else starts afresh.
Pending(op, limits, err) ==
    IF op \in ReadOps THEN pending
    ELSE IF err # nil THEN NoPending
    ELSE IF op \in SetOps
    THEN [mode |-> op,
          limits |-> {l \in (IF op = "SetLimit" /\ pending.mode \in SetOps
                             THEN pending.limits ELSE {}) :
                          \A i \in 1..Len(limits) : Key(limits[i]) # Key(l)}
                     \cup Effective(limits),
          had |-> {}]
    ELSE IF op \in {"ResetLimit", "ResetLimits"}
    THEN [mode |-> op, limits |-> Effective(limits), had |-> ClassesWithFlags(os)]
    ELSE NoPending

\* The caller makes one call at a time and takes its result before the
\* next call.
Idle == last = NoOp

\* The caller's state after an operation that left the world w.
Commit(op, limits, w, ret) ==
    /\ job' = w.job
    /\ os' = w.os
    /\ handles' = w.handles
    /\ proc' = w.proc
    /\ last' = Record(op, limits, w, ret)
    /\ pending' = Pending(op, limits, w.err)
    /\ U' = U
    /\ threads' = threads
    /\ actors' = actors
    /\ UNCHANGED nvars

\* The caller's state after an operation that returned r: a world with a
\* returned value and error.
Returned(op, limits, r) == Commit(op, limits, [r.w EXCEPT !.err = r.err], r.ret)

Bool(b) == IF b THEN "true" ELSE "false"

InitJob(presets) ==
    /\ job = JobObject(InvalidHandle)
    /\ os = JobInfo
    /\ handles = {}
    /\ nhandles = 0
    /\ proc = NoProcess
    /\ c = Counters
    /\ U \in presets
    /\ threads = <<>>
    /\ actors = <<>>
    /\ last = NoOp
    /\ pending = NoPending

DoSetLimit ==
    /\ Idle
    /\ \E limits \in LimitLists :
         \E f \in Rejected(ApplyFaults(limits)), order \in MapOrders(classesOf(limits)) :
           /\ Commit("SetLimit", limits,
                     SetLimit(World(job, os, handles, proc, f), limits, order), "")
           /\ UNCHANGED <<nhandles, c>>

DoResetLimit ==
    /\ Idle
    /\ \E limits \in LimitLists :
         \E f \in Rejected(ApplyFaults(limits)), order \in MapOrders(classesOf(limits)) :
           /\ Commit("ResetLimit", limits,
                     ResetLimit(World(job, os, handles, proc, f), limits, order), "")
           /\ UNCHANGED <<nhandles, c>>

DoQueryLimits ==
    /\ Idle
    /\ \E f \in Rejected(QueryFaults) :
           /\ Commit("QueryLimits", <<>>, QueryLimits(World(job, os, handles, proc, f)), "")
           /\ UNCHANGED <<nhandles, c>>

DoHasLimits ==
    /\ Idle
    /\ \E f \in Rejected(QueryFaults) :
           LET r == HasLimits(World(job, os, handles, proc, f)) IN
           /\ Commit("HasLimits", <<>>, r.w, Bool(r.ret))
           /\ UNCHANGED <<nhandles, c>>

DoResetLimits ==
    /\ Idle
    /\ \E f \in Rejected(ResetFaults) :
           /\ Commit("ResetLimits", <<>>, ResetLimits(World(job, os, handles, proc, f)), "")
           /\ UNCHANGED <<nhandles, c>>

DoCreate ==
    /\ Idle
    /\ handles = {}
    /\ nhandles < MaxHandles
    /\ \E limits \in LimitLists :
       \E f \in ApplyFaults(limits) \cup {Fault("CreateJobObject", 0)},
          order \in MapOrders(classesOf(limits)) :
            /\ Returned("Create", limits,
                        Create(World(job, os, handles, proc, f), nhandles + 1, limits, order))
            /\ nhandles' = IF f = Fault("CreateJobObject", 0) THEN nhandles ELSE nhandles + 1
            /\ c' = c

\* Open(name) of the job that exists on the OS side.
DoOpen ==
    /\ Idle
    /\ handles = {}
    /\ nhandles < MaxHandles
    /\ \E f \in {NoFault, Fault("OpenJobObject", 0)} :
            /\ Returned("Open", <<>>, Open(World(job, os, handles, proc, f), nhandles + 1))
            /\ nhandles' = IF f = NoFault THEN nhandles + 1 ELSE nhandles
            /\ c' = c

ThreadFaults ==
    {NoFault} \cup {Fault(call, 0) : call \in {"CreateToolhelp32Snapshot", "Thread32First",
                                               "Thread32Next", "OpenThread", "ResumeThread"}}

\* ResumeProcess(pid) of one of the processes of the system.
DoResumeProcess ==
    /\ Idle
    /\ \E pid \in 1..MaxPid, f \in ThreadFaults :
           /\ Commit("ResumeProcess", <<>>,
                     ResumeProcess(World(job, os, handles, proc, f), threads, pid), pid)
           /\ UNCHANGED <<nhandles, c>>

\* The flows that hold a JobObject of their own on the OS job, opened by
\* name: flow a holds the handle a.
Actors == 1..MaxActors

\* SetLimit(limit) by flow a, of the flag that a sets, up to the end of the
\* loop of applyLimit: the query of the block of the limit and the merge
\* into the cache of a.
ActorQuery(a) ==
    /\ actors[a].pc = "idle"
    /\ \E f \in {NoFault, Fault("QueryInfo", resolveRequiredInfoClass(actors[a].limit))} :
         LET w == applyLoop(World(actors[a].job, os, handles, proc, f), TRUE,
                            <<actors[a].limit>>, {})
         IN  actors' = [actors EXCEPT ![a].job = w.job, ![a].err = w.err,
                                      ![a].pc = IF w.err # nil THEN "done" ELSE "queried"]
    /\ UNCHANGED <<job, os, handles, nhandles, proc, c, U, threads, last, pending, nvars>>

\* SetLimit(limit) by flow a, the write-back: job.sync(jobapi.SetInfo, ...).
ActorSet(a) ==
    /\ actors[a].pc = "queried"
    /\ \E f \in {NoFault, Fault("SetInfo", resolveRequiredInfoClass(actors[a].limit))} :
         LET w == sync(World(actors[a].job, os, handles, proc, f), "SetInfo",
                       <<resolveRequiredInfoClass(actors[a].limit)>>)
         IN  /\ os' = w.os
             /\ actors' = [actors EXCEPT ![a].err = w.err, ![a].pc = "done"]
    /\ UNCHANGED <<job, handles, nhandles, proc, c, U, threads, last, pending, nvars>>

\* Flow a has taken the result of its SetLimit.
ActorReturn(a) ==
    /\ actors[a].pc = "done"
    /\ actors' = [actors EXCEPT ![a].pc = "idle", ![a].err = nil]
    /\ UNCHANGED <<job, os, handles, nhandles, proc, c, U, threads, last, pending, nvars>>

DoClose ==
    /\ Idle
    /\ Commit("Close", <<>>, Close(World(job, os, handles, proc, NoFault)), "")
    /\ UNCHANGED <<nhandles, c>>

\* Another actor sets or clears one limit of the OS job through its own
\* handle; the caller's cache is not told.
OtherActor ==
    /\ Idle
    /\ handles # {}
    /\ \E limit \in U, isSet \in BOOLEAN :
        LET o == [Handle |-> InvalidHandle, JobInfo |-> os]
        IN  os' = (IF isSet THEN set(limit, o) ELSE reset(limit, o)).JobInfo
    /\ os' # os
    /\ pending' = NoPending
    /\ UNCHANGED <<job, handles, nhandles, proc, c, U, threads, actors, last, nvars>>

\* The caller has taken the result of its last call.
Return ==
    /\ ~Idle
    /\ last' = NoOp
    /\ UNCHANGED <<job, os, handles, nhandles, proc, c, U, threads, actors, pending, nvars>>

LimitNext ==
    \/ DoSetLimit
    \/ DoResetLimit
    \/ DoQueryLimits
    \/ DoHasLimits
    \/ DoResetLimits
    \/ DoCreate
    \/ DoClose
    \/ Return
    \/ OtherActor

(***************************************************************************)
(* The job with its processes and counters.                                *)
(***************************************************************************)
ProcessFaults(fn) == {NoFault, Fault("OpenProcess", 0), Fault(fn, 0)}

StartFaults ==
    {Fault(call, 0) : call \in {"CreateProcess", "OpenProcess", "AssignProcessToJobObject",
                                "ResumeThread"}}

\* What the OS has accounted once a process ran in the job: every counter
\* has a value of its own.
Accounted == [f \in CounterNames |-> CHOOSE i \in 1..Len(CounterFields) : CounterFields[i] = f]

DoAssign ==
    /\ Idle
    /\ \E f \in ProcessFaults("AssignProcessToJobObject") :
           /\ Commit("Assign", <<>>, Assign(World(job, os, handles, proc, f)), "")
           /\ UNCHANGED <<nhandles, c>>

DoContains ==
    /\ Idle
    /\ \E f \in ProcessFaults("IsProcessInJob") :
           LET r == Contains(World(job, os, handles, proc, f)) IN
           /\ Commit("Contains", <<>>, r.w, Bool(r.ret))
           /\ UNCHANGED <<nhandles, c>>

DoTerminate ==
    /\ Idle
    /\ \E f \in Rejected({NoFault, Fault("TerminateJobObject", 0)}) :
           /\ Commit("Terminate", <<>>, Terminate(World(job, os, handles, proc, f)), "")
           /\ UNCHANGED <<nhandles, c>>

DoQueryCounters ==
    /\ Idle
    /\ \E f \in Rejected({NoFault, Fault("QueryInfo", JobObjectBasicAndIoAccountingInformation)}) :
           LET r == QueryCounters(World(job, os, handles, proc, f), c) IN
           /\ Commit("QueryCounters", <<>>, r.w, "")
           /\ c' = r.c
           /\ UNCHANGED nhandles

\* job.Counters(); the caller keeps the snapshot it returns for the next
\* QueryCounters call.
DoCounters ==
    /\ Idle
    /\ \E f \in Rejected({NoFault, Fault("QueryInfo", JobObjectBasicAndIoAccountingInformation)}) :
           LET r == JobObject_Counters(World(job, os, handles, proc, f)) IN
           /\ Commit("Counters", <<>>, r.w, IF r.w.err = nil THEN "counters" ELSE "nil")
           /\ c' = IF r.w.err = nil THEN r.c ELSE c
           /\ UNCHANGED nhandles

DoStart ==
    /\ Idle
    /\ handles = {}
    /\ nhandles < MaxHandles
    /\ proc.state = "none"
    /\ \E limits \in LimitLists :
       \E f \in ApplyFaults(limits) \cup {Fault("CreateJobObject", 0)} \cup StartFaults,
          order \in MapOrders(classesOf(limits)) :
            /\ Returned("Start", limits,
                        Start(World(job, os, handles, proc, f), nhandles + 1, limits, order))
            /\ nhandles' = IF f = Fault("CreateJobObject", 0) THEN nhandles ELSE nhandles + 1
            /\ c' = c

\* StartInJobObject(cmd, job) on the job the caller holds.
DoStartInJobObject ==
    /\ Idle
    /\ proc.state = "none"
    /\ \E f \in Rejected({NoFault}) \cup StartFaults :
           /\ Commit("StartInJobObject", <<>>,
                     StartInJobObject(World(job, os, handles, proc, f)), "")
           /\ UNCHANGED <<nhandles, c>>

\* The caller starts the command itself, outside any job (cmd.Start()).
Spawn ==
    /\ Idle
    /\ proc.state = "none"
    /\ proc' = [state |-> "running", inJob |-> FALSE]
    /\ UNCHANGED <<job, os, handles, nhandles, c, U, threads, actors, last, pending, nvars>>

\* The OS accounts the work of the process of the job.
Account ==
    /\ Idle
    /\ handles # {}
    /\ proc.inJob
    /\ os.AccountingInfo # Accounted
    /\ os' = [os EXCEPT !.AccountingInfo = Accounted]
    /\ UNCHANGED <<job, handles, nhandles, proc, c, U, threads, actors, last, pending, nvars>>

NextJob ==
    \/ LimitNext
    \/ DoAssign
    \/ DoContains
    \/ DoTerminate
    \/ DoQueryCounters
    \/ DoCounters
    \/ DoStart
    \/ DoStartInJobObject
    \/ Spawn
    \/ Account

(***************************************************************************)
(* Notifications: the completion port, Notify, the loop s.notify(c), the   *)
(* channel and its consumer, Subscription.Close and Err.                   *)
(***************************************************************************)
\* Events the OS posts to the port in one behaviour.
MaxEvents == 3
\* Largest capacity of the channel handed to Notify.
MaxCap == 1

\* Largest message code the OS posts where the codes are enumerated, and
\* the number of such events in one behaviour.
MaxCode == 14
MaxCodes == 1

\* The threads that call s.Close().
Closers == {1, 2}

notificationTypes ==
    (JOB_OBJECT_MSG_END_OF_JOB_TIME :> "EndOfJobTime")
    @@ (JOB_OBJECT_MSG_END_OF_PROCESS_TIME :> "EndOfProcessTime")
    @@ (JOB_OBJECT_MSG_ACTIVE_PROCESS_LIMIT :> "ActiveProcessLimit")
    @@ (JOB_OBJECT_MSG_ACTIVE_PROCESS_ZERO :> "ActiveProcessZero")
    @@ (JOB_OBJECT_MSG_NEW_PROCESS :> "NewProcess")
    @@ (JOB_OBJECT_MSG_EXIT_PROCESS :> "ExitProcess")
    @@ (JOB_OBJECT_MSG_ABNORMAL_EXIT_PROCESS :> "AbnormalExitProcess")
    @@ (JOB_OBJECT_MSG_PROCESS_MEMORY_LIMIT :> "ProcessMemoryExit")
    @@ (JOB_OBJECT_MSG_JOB_MEMORY_LIMIT :> "JobMemoryLimit")
    @@ (JOB_OBJECT_MSG_NOTIFICATION_LIMIT :> "NotificationLimit")
    @@ (JOB_OBJECT_MSG_JOB_CYCLE_TIME_LIMIT :> "JobCycleLimit")
    @@ (JOB_OBJECT_MSG_SILO_TERMINATED :> "SiloTerminated")

\* A table without entries.
resolveNotificationType_unknown(mType) == [t |-> "", ok |-> FALSE]

resolveNotificationType(mType) ==
    [t |-> IF mType \in DOMAIN notificationTypes THEN notificationTypes[mType] ELSE "",
     ok |-> mType \in DOMAIN notificationTypes]

\* The Notification NextMessage builds from a dequeued packet.
Notification(packet) ==
    LET r == resolveNotificationType(packet.mType)
    IN  [Type |-> IF r.ok THEN r.t ELSE ToString(packet.mType), PID |-> packet.pid]

\* The packets the OS job posts.
Packets ==
    {[mType |-> JOB_OBJECT_MSG_NEW_PROCESS, pid |-> 1],
     [mType |-> JOB_OBJECT_MSG_ACTIVE_PROCESS_ZERO, pid |-> 0]}

\* releases counts the successful CloseHandle calls on the port handle; direct
\* tells that one of them was s.Port.Close() called by the user.
NoPort == [state |-> "none", queue |-> <<>>, releases |-> 0, direct |-> FALSE]
Subscription == [closed |-> FALSE, err |-> nil]
NoNotification == [Type |-> "", PID |-> 0]
NoLoop == [pc |-> "idle", m |-> NoNotification, err |-> nil]
NotRead == [syscall |-> "-", errno |-> -1]

\* jobapi.GetQueuedCompletionStatus on the port: outstanding tells whether the
\* call was already waiting when the handle state is looked at.  The errno
\* is 0 when a packet is there, -1 when the call has to wait.
GetQueuedCompletionStatus(p, outstanding, fault) ==
    IF p.state # "open" THEN (IF outstanding THEN ErrAbandoned ELSE ERROR_INVALID_HANDLE)
    ELSE IF fault = Fault("GetQueuedCompletionStatus", 0) THEN ERROR_INVALID_PARAMETER
    ELSE IF p.queue = <<>> THEN -1
    ELSE 0

\* errors.Is(err, errno) on a wrapped syscall error.
errorsIs(err, errno) == err # nil /\ err.errno = errno

\* Port.Close(): syscall.CloseHandle; the errno and the port afterwards.
PortClose(p) ==
    IF p.state = "open"
    THEN [errno |-> 0, port |-> [p EXCEPT !.state = "closed", !.releases = @ + 1]]
    ELSE [errno |-> ERROR_INVALID_HANDLE, port |-> p]

\* CreatePort(job): the world, the port and the error.
CreatePort(w) ==
    IF w.fault = Fault("CreateIoCompletionPort", 0)
    THEN [w |-> Call(w, "CreateIoCompletionPort", 0, ERROR_INVALID_PARAMETER,
                     "CreateIoCompletionPort"),
          port |-> NoPort]
    ELSE LET w1 == Call(w, "CreateIoCompletionPort", 0, 0, "CreateIoCompletionPort")
             e  == lastErr(w1, "AssociateCompletionPort", 0)
             w2 == Call(w1, "AssociateCompletionPort", 0, e, "SetInformationJobObject")
             p  == [NoPort EXCEPT !.state = "open"]
         IN  IF e # 0
             THEN [w |-> [w2 EXCEPT !.log = Append(@, [call |-> "CloseHandle(port)",
                                                        class |-> 0, ok |-> TRUE])],
                   port |-> PortClose(p).port]
             ELSE [w |-> w2, port |-> p]

\* A Notify that starts the loop before it looks at the error of CreatePort.
Notify_go(w) ==
    LET r == CreatePort(w)
    IN  [w |-> r.w, port |-> r.port, go |-> TRUE,
         ret |-> IF r.w.err # nil THEN "nil" ELSE "subscription"]

\* Notify(c, job): the world, the port, and whether go s.notify(c) ran.
Notify(w) ==
    LET r == CreatePort(w)
    IN  IF r.w.err # nil THEN [w |-> r.w, port |-> r.port, go |-> FALSE, ret |-> "nil"]
        ELSE [w |-> r.w, port |-> r.port, go |-> TRUE, ret |-> "subscription"]

\* A handlePortErr that drops every error once Close was called.
handlePortErr_closed(sub, err) ==
    IF sub.closed THEN sub
    ELSE [sub EXCEPT !.err = err]

\* A handlePortErr that drops ErrAbandoned whether or not Close was called.
handlePortErr_drop(sub, err) ==
    IF errorsIs(err, ErrAbandoned) THEN sub
    ELSE [sub EXCEPT !.err = err]

\* handlePortErr(err): the Subscription afterwards.
handlePortErr(sub, err) ==
    IF errorsIs(err, ErrAbandoned) /\ sub.closed THEN sub
    ELSE [sub EXCEPT !.err = err]

\* A send that drops the notification.
send_drop(ch, m) == ch

\* c <- m on a channel with room.
send(ch, m) == [ch EXCEPT !.buf = Append(@, m)]

InitNotify(caps) ==
    /\ port = NoPort
    /\ s = Subscription
    /\ mu = 0
    /\ loop = NoLoop
    /\ sink \in {[buf |-> <<>>, cap |-> k, closed |-> FALSE, closes |-> 0] : k \in caps}
    /\ consumer = [received |-> <<>>, sawClosed |-> FALSE]
    /\ dequeued = <<>>
    /\ closer = [t \in Closers |-> [pc |-> "idle", ret |-> NotRead]]
    /\ errRead = NotRead

DoNotify ==
    /\ Idle
    /\ port.state = "none"
    /\ \E f \in {NoFault, Fault("CreateIoCompletionPort", 0),
                 Fault("AssociateCompletionPort", 0)} :
        LET r == Notify(World(job, os, handles, proc, f)) IN
        /\ port' = r.port
        /\ loop' = IF r.go THEN [NoLoop EXCEPT !.pc = "NextMessage"] ELSE loop
        /\ s' = Subscription
        /\ last' = Record("Notify", <<>>, r.w, r.ret)
        /\ UNCHANGED <<job, os, handles, nhandles, proc, c, U, threads, actors, pending>>
        /\ UNCHANGED <<mu, sink, consumer, dequeued, closer, errRead>>

\* The OS job posts a packet to its completion port.
Post ==
    /\ port.state = "open"
    /\ Len(dequeued) + Len(port.queue) < MaxEvents
    /\ \E packet \in Packets : port' = [port EXCEPT !.queue = Append(@, packet)]
    /\ UNCHANGED <<jvars, s, mu, loop, sink, consumer, dequeued, closer, errRead>>

\* The OS posts a packet of any message code, for a process or for the job.
PostCode ==
    /\ port.state = "open"
    /\ Len(dequeued) + Len(port.queue) < MaxCodes
    /\ \E code \in 0..MaxCode, pid \in {0, 1} :
           port' = [port EXCEPT !.queue = Append(@, [mType |-> code, pid |-> pid])]
    /\ UNCHANGED <<jvars, s, mu, loop, sink, consumer, dequeued, closer, errRead>>

\* The loop after GetQueuedCompletionStatus returned errno e.
Dequeue(e) ==
    IF e = 0
    THEN /\ loop' = [loop EXCEPT !.pc = "send", !.m = Notification(Head(port.queue))]
         /\ port' = [port EXCEPT !.queue = Tail(@)]
         /\ dequeued' = Append(dequeued, Head(port.queue))
    ELSE /\ loop' = [loop EXCEPT !.pc = IF e = -1 THEN "waiting" ELSE "handlePortErr",
                                 !.err = IF e = -1 THEN nil
                                         ELSE NewSyscallError("GetQueuedCompletionStatus", e)]
         /\ UNCHANGED <<port, dequeued>>

\* s.Port.NextMessage() is called.
LoopNextMessage ==
    /\ loop.pc = "NextMessage"
    /\ \E f \in {NoFault, Fault("GetQueuedCompletionStatus", 0)} :
        Dequeue(GetQueuedCompletionStatus(port, FALSE, f))
    /\ UNCHANGED <<jvars, s, mu, sink, consumer, closer, errRead>>

\* The outstanding GetQueuedCompletionStatus returns.
LoopWake ==
    /\ loop.pc = "waiting"
    /\ GetQueuedCompletionStatus(port, TRUE, NoFault) # -1
    /\ Dequeue(GetQueuedCompletionStatus(port, TRUE, NoFault))
    /\ UNCHANGED <<jvars, s, mu, sink, consumer, closer, errRead>>

\* c <- m: into the buffer when there is room, or straight to a consumer that
\* is receiving when the channel has no buffer.
LoopSend ==
    /\ loop.pc = "send"
    /\ IF sink.closed
       THEN /\ loop' = [loop EXCEPT !.pc = "panic"]
            /\ UNCHANGED <<sink, consumer>>
       ELSE /\ loop' = [loop EXCEPT !.pc = "NextMessage", !.m = NoNotification]
            /\ \/ /\ Len(sink.buf) < sink.cap
                  /\ sink' = send(sink, loop.m)
                  /\ UNCHANGED consumer
               \/ /\ sink.cap = 0
                  /\ consumer' = [consumer EXCEPT !.received = send([buf |-> @], loop.m).buf]
                  /\ UNCHANGED sink
    /\ UNCHANGED <<jvars, port, s, mu, dequeued, closer, errRead>>

\* A loop that returns on an error without classifying it.
LoopHandlePortErr_skip ==
    /\ loop.pc = "handlePortErr"
    /\ mu = 0
    /\ loop' = [loop EXCEPT !.pc = "close"]
    /\ UNCHANGED <<jvars, port, s, mu, sink, consumer, dequeued, closer, errRead>>

\* s.handlePortErr(err), a critical section of s.mu.
LoopHandlePortErr ==
    /\ loop.pc = "handlePortErr"
    /\ mu = 0
    /\ s' = handlePortErr(s, loop.err)
    /\ loop' = [loop EXCEPT !.pc = "close"]
    /\ UNCHANGED <<jvars, port, mu, sink, consumer, dequeued, closer, errRead>>

\* A close(c) inside the loop body instead of the deferred one.
LoopClose_again ==
    /\ loop.pc = "close"
    /\ loop' = [loop EXCEPT !.pc = "NextMessage"]
    /\ sink' = [sink EXCEPT !.closed = TRUE, !.closes = @ + 1]
    /\ UNCHANGED <<jvars, port, s, mu, consumer, dequeued, closer, errRead>>

\* The deferred close(c).
LoopClose ==
    /\ loop.pc = "close"
    /\ loop' = [loop EXCEPT !.pc = IF sink.closed THEN "panic" ELSE "done"]
    /\ sink' = [sink EXCEPT !.closed = TRUE, !.closes = IF sink.closed THEN @ ELSE @ + 1]
    /\ UNCHANGED <<jvars, port, s, mu, consumer, dequeued, closer, errRead>>

\* The consumer receives from the channel.
Receive ==
    /\ sink.buf # <<>>
    /\ sink' = [sink EXCEPT !.buf = Tail(@)]
    /\ consumer' = [consumer EXCEPT !.received = Append(@, Head(sink.buf))]
    /\ UNCHANGED <<jvars, port, s, mu, loop, dequeued, closer, errRead>>

\* The consumer's receive reports the channel closed.
ReceiveClosed ==
    /\ sink.buf = <<>>
    /\ sink.closed
    /\ ~consumer.sawClosed
    /\ consumer' = [consumer EXCEPT !.sawClosed = TRUE]
    /\ UNCHANGED <<jvars, port, s, mu, loop, sink, dequeued, closer, errRead>>

\* A Close that sets the flag before it closes the port handle.
CloseLock_flag_first(t) ==
    /\ loop.pc # "idle"
    /\ closer[t].pc = "idle"
    /\ mu = 0
    /\ IF s.closed
       THEN /\ closer' = [closer EXCEPT ![t].ret = nil]
            /\ mu' = 0
       ELSE /\ closer' = [closer EXCEPT ![t].pc = "Port.Close"]
            /\ mu' = t
    /\ s' = [s EXCEPT !.closed = TRUE]
    /\ UNCHANGED <<jvars, port, loop, sink, consumer, dequeued, errRead>>

\* s.Close() by thread t: s.mu.Lock() and the test of s.closed.
CloseLock(t) ==
    /\ loop.pc # "idle"
    /\ closer[t].pc = "idle"
    /\ mu = 0
    /\ IF s.closed
       THEN /\ closer' = [closer EXCEPT ![t].ret = nil]
            /\ mu' = 0
       ELSE /\ closer' = [closer EXCEPT ![t].pc = "Port.Close"]
            /\ mu' = t
    /\ UNCHANGED <<jvars, port, s, loop, sink, consumer, dequeued, errRead>>

\* A Close that gives up s.mu once the port handle is closed.
CloseRelease_unlocked(t) ==
    /\ closer[t].pc = "Port.Close"
    /\ LET r == PortClose(port) IN
       /\ port' = r.port
       /\ IF r.errno # 0
          THEN closer' = [closer EXCEPT ![t] = [pc |-> "idle",
                                                ret |-> NewSyscallError("CloseHandle", r.errno)]]
          ELSE closer' = [closer EXCEPT ![t].pc = "closed = true"]
    /\ mu' = 0
    /\ UNCHANGED <<jvars, s, loop, sink, consumer, dequeued, errRead>>

\* A Close that sets the flag also when the release of the handle failed.
CloseRelease_flagged(t) ==
    /\ closer[t].pc = "Port.Close"
    /\ LET r == PortClose(port) IN
       /\ port' = r.port
       /\ IF r.errno # 0
          THEN /\ closer' = [closer EXCEPT ![t] = [pc |-> "idle",
                                                   ret |-> NewSyscallError("CloseHandle", r.errno)]]
               /\ mu' = 0
               /\ s' = [s EXCEPT !.closed = TRUE]
          ELSE /\ closer' = [closer EXCEPT ![t].pc = "closed = true"]
               /\ mu' = mu
               /\ s' = s
    /\ UNCHANGED <<jvars, loop, sink, consumer, dequeued, errRead>>

\* s.Close() by thread t: s.Port.Close() and the return of its error.
CloseRelease(t) ==
    /\ closer[t].pc = "Port.Close"
    /\ LET r == PortClose(port) IN
       /\ port' = r.port
       /\ IF r.errno # 0
          THEN /\ closer' = [closer EXCEPT ![t] = [pc |-> "idle",
                                                   ret |-> NewSyscallError("CloseHandle", r.errno)]]
               /\ mu' = 0
          ELSE /\ closer' = [closer EXCEPT ![t].pc = "closed = true"]
               /\ mu' = mu
    /\ UNCHANGED <<jvars, s, loop, sink, consumer, dequeued, errRead>>

\* A Close that returns without recording that the port was closed.
CloseFlag_forget(t) ==
    /\ closer[t].pc = "closed = true"
    /\ closer' = [closer EXCEPT ![t] = [pc |-> "idle", ret |-> nil]]
    /\ mu' = 0
    /\ UNCHANGED <<jvars, port, s, loop, sink, consumer, dequeued, errRead>>

\* A Close that waits for the loop to exit before it returns.
CloseFlag_wait(t) ==
    /\ closer[t].pc = "closed = true"
    /\ loop.pc = "done"
    /\ s' = [s EXCEPT !.closed = TRUE]
    /\ closer' = [closer EXCEPT ![t] = [pc |-> "idle", ret |-> nil]]
    /\ mu' = 0
    /\ UNCHANGED <<jvars, port, loop, sink, consumer, dequeued, errRead>>

\* s.Close() by thread t: s.closed = true, return nil and the deferred Unlock.
CloseFlag(t) ==
    /\ closer[t].pc = "closed = true"
    /\ s' = [s EXCEPT !.closed = TRUE]
    /\ closer' = [closer EXCEPT ![t] = [pc |-> "idle", ret |-> nil]]
    /\ mu' = 0
    /\ UNCHANGED <<jvars, port, loop, sink, consumer, dequeued, errRead>>

\* s.Port.Close() called directly.
DoPortClose ==
    /\ loop.pc # "idle"
    /\ port.state = "open"
    /\ port' = [PortClose(port).port EXCEPT !.direct = TRUE]
    /\ UNCHANGED <<jvars, s, mu, loop, sink, consumer, dequeued, closer, errRead>>

\* s.Err(), a critical section of s.mu.
DoErr ==
    /\ loop.pc # "idle"
    /\ mu = 0
    /\ errRead' = s.err
    /\ UNCHANGED <<jvars, port, s, mu, loop, sink, consumer, dequeued, closer>>

NextNotify ==
    \/ DoCreate
    \/ Return
    \/ DoNotify
    \/ Post
    \/ LoopNextMessage
    \/ LoopWake
    \/ LoopSend
    \/ LoopHandlePortErr
    \/ LoopClose
    \/ Receive
    \/ ReceiveClosed
    \/ \E t \in Closers : CloseLock(t)
    \/ \E t \in Closers : CloseRelease(t)
    \/ \E t \in Closers : CloseFlag(t)
    \/ DoPortClose
    \/ DoErr

(***************************************************************************)
(* The specifications.                                                     *)
(***************************************************************************)
Init == InitJob(MixedPresets) /\ InitNotify({0})
Next == LimitNext

\* The limit protocol on presets that span blocks.
Spec == Init /\ [][Next]_vars

InitFlags == InitJob(FlagPresets) /\ InitNotify({0})
\* The limit protocol on each boolean-flag limit.
SpecFlags == InitFlags /\ [][Next]_vars

InitValues == InitJob(ValuePresets) /\ InitNotify({0})
\* The limit protocol on each value-bearing limit.
SpecValues == InitValues /\ [][Next]_vars

InitCPU == InitJob(CPUPresets) /\ InitNotify({0})
\* The limit protocol on the CPU rate sub-modes.
SpecCPU == InitCPU /\ [][Next]_vars

OpenPresets ==
    {{LimitKillOnJobClose, WithAffinity(MaxVal)}, {WithCPUHardCapLimit(1), WithDSCPTag(MaxVal)}}
\* A job that another process has created, without limits or with one limit
\* of U set, and of which the caller holds no JobObject yet.
InitOpen ==
    /\ job = JobObject(InvalidHandle)
    /\ handles = {}
    /\ nhandles = 0
    /\ proc = NoProcess
    /\ c = Counters
    /\ U \in OpenPresets
    /\ threads = <<>>
    /\ actors = <<>>
    /\ os \in {JobInfo} \cup {set(l, JobObject(InvalidHandle)).JobInfo : l \in U}
    /\ last = NoOp
    /\ pending = NoPending
    /\ InitNotify({0})
NextOpen ==
    \/ DoOpen
    \/ LimitNext
\* The limit protocol on a job opened by name.
SpecOpen == InitOpen /\ [][NextOpen]_vars

OrderPresets ==
    {{WithAffinity(1), WithAffinity(MaxVal)},
     {WithJobMemoryLimit(1), WithJobMemoryLimit(MaxVal)},
     {WithCPUHardCapLimit(1), WithCPUWeightedLimit(MaxVal)},
     {WithCPUWeightedLimit(1), WithCPUMinMaxLimit(1, MaxVal)},
     {WithCPUHardCapLimit(1), WithCPUMinMaxLimit(MaxVal, 0)}}
InitOrder == InitJob(OrderPresets) /\ InitNotify({0})
\* The limit protocol on limits that write the same field.
SpecOrder == InitOrder /\ [][Next]_vars

\* The thread snapshots of at most MaxThreads entries: the owner of an entry
\* is the idle process 0, whose threads have the identifier 0, or one of the
\* processes 1..MaxPid, and the other thread identifiers are distinct.
Snapshots ==
    UNION {{[i \in 1..n |-> ThreadEntry32(o[i], IF o[i] = 0 THEN 0 ELSE i)] :
                o \in [1..n -> 0..MaxPid]} : n \in 1..MaxThreads}
InitThreads ==
    /\ job = JobObject(InvalidHandle)
    /\ os = JobInfo
    /\ handles = {}
    /\ nhandles = 0
    /\ proc = NoProcess
    /\ c = Counters
    /\ U = {}
    /\ threads \in Snapshots
    /\ actors = <<>>
    /\ last = NoOp
    /\ pending = NoPending
    /\ InitNotify({0})
NextThreads ==
    \/ DoResumeProcess
    \/ Return
\* ResumeProcess on the thread snapshots of a system.
SpecThreads == InitThreads /\ [][NextThreads]_vars

\* Values of a uint16 at the ends and at the byte boundary of its range;
\* Max stays below 2^15, which keeps the packed 32-bit value below 2^31.
Words == {0, 1, 2^8 - 1, 2^8, 2^16 - 1}
RatePresets ==
    {{WithCPUMinMaxLimit(min, max)} : min \in Words, max \in (Words \ {2^16 - 1}) \cup {2^15 - 1}}
    \cup {{WithCPUHardCapLimit(v)} : v \in 1..MaxVal}
    \cup {{WithCPUWeightedLimit(v)} : v \in 1..MaxVal}
InitRate == InitJob(RatePresets) /\ InitNotify({0})
\* The limit protocol on one CPU rate limit.
SpecRate == InitRate /\ [][Next]_vars

\* Durations in nanoseconds of at most MaxTicks ticks and a remainder: whole
\* multiples of a tick, and durations just above and just below one.
Durations == {k * timeFraction + r : k \in 0..MaxTicks, r \in {0, 1, timeFraction - 1}}
TimePresets ==
    {{WithJobTimeLimit(d)} : d \in Durations}
    \cup {{WithProcessTimeLimit(d)} : d \in Durations}
    \cup {{WithJobTimeLimit(timeFraction + 1), WithProcessTimeLimit(2 * timeFraction - 1)}}
InitTime == InitJob(TimePresets) /\ InitNotify({0})
\* The limit protocol on the time limits.
SpecTime == InitTime /\ [][Next]_vars

\* Flags of one block, the extended limit information: flow a sets the
\* a-th of them.
SharedFlags ==
    <<LimitBreakawayOK, LimitKillOnJobClose, LimitDieOnUnhandledException,
      LimitPreserveJobTime, LimitSubsetAffinity, LimitSilentBreakawayOK>>
\* Every flow has opened the OS job, which has no limits yet.
InitHandles ==
    /\ job = JobObject(InvalidHandle)
    /\ os = JobInfo
    /\ handles = Actors
    /\ nhandles = MaxActors
    /\ proc = NoProcess
    /\ c = Counters
    /\ U = {SharedFlags[a] : a \in Actors}
    /\ threads = <<>>
    /\ actors = [a \in Actors |-> [job |-> JobObject(a), limit |-> SharedFlags[a],
                                    err |-> nil, pc |-> "idle"]]
    /\ last = NoOp
    /\ pending = NoPending
    /\ InitNotify({0})
NextHandles ==
    \/ \E a \in Actors : ActorQuery(a)
    \/ \E a \in Actors : ActorSet(a)
    \/ \E a \in Actors : ActorReturn(a)
\* SetLimit through several JobObjects of one OS job, step by step.
SpecHandles == InitHandles /\ [][NextHandles]_vars

InitJobs == InitJob(JobPresets) /\ InitNotify({0})
\* The job with its processes and counters.
SpecJob == InitJobs /\ [][NextJob]_vars

InitSubscription == InitJob({{}}) /\ InitNotify(0..MaxCap)
\* One subscription to the notifications of the job.
SpecNotify == InitSubscription /\ [][NextNotify]_vars

\* The loop and the consumer on packets of every message code.
NextCodes ==
    \/ DoCreate
    \/ Return
    \/ DoNotify
    \/ PostCode
    \/ LoopNextMessage
    \/ LoopWake
    \/ LoopSend
    \/ LoopHandlePortErr
    \/ LoopClose
    \/ Receive
    \/ ReceiveClosed
SpecCodes == InitSubscription /\ [][NextCodes]_vars

\* The goroutine of s.notify(c) is scheduled fairly: it takes every step it
\* can take by itself.  A send on a channel without buffer needs a receiver
\* and is no such step.  s.mu is a sync.Mutex, which hands the lock to a
\* goroutine that keeps waiting for it: the loop is not starved of s.mu by
\* threads that lock it again and again.
LoopFair ==
    /\ WF_vars(LoopNextMessage \/ LoopWake \/ (LoopSend /\ sink.cap # 0) \/ LoopClose)
    /\ SF_vars(LoopHandlePortErr)
\* The subscription with a fairly scheduled loop.
SpecNotifyFair == SpecNotify /\ LoopFair

\* The consumer keeps receiving, and a thread inside Close runs to its return.
ConsumerFair ==
    /\ WF_vars(LoopSend)
    /\ WF_vars(Receive)
    /\ WF_vars(\E t \in Closers : CloseRelease(t) \/ CloseFlag(t))
\* A thread inside Close goes on running; nothing is assumed of the loop, of
\* the consumer or of the OS.
CloserFair == WF_vars(\E t \in Closers : CloseRelease(t) \/ CloseFlag(t))
InitBuffered == InitJob({{}}) /\ InitNotify({MaxCap})
\* The subscription on a buffered channel, with threads that finish their
\* Close.
SpecNotifyClosers == InitBuffered /\ [][NextNotify]_vars /\ CloserFair
\* The subscription on a buffered channel with a fairly scheduled loop and a
\* consumer that drains the channel.
SpecNotifyDrained == InitBuffered /\ [][NextNotify]_vars /\ LoopFair /\ ConsumerFair

(***************************************************************************)
(* Properties.                                                             *)
(***************************************************************************)
AllLimitClasses == {LimitInfoClasses[i] : i \in 1..4}

\* The flag bits that are set in the limit blocks of info, by block.
BitsOf(info) ==
    {<<"ExtendedLimits", b>> : b \in info.ExtendedLimits.BasicLimitInformation.LimitFlags}
    \cup {<<"UIRestrictions", b>> : b \in info.UIRestrictions.UIRestrictionsClass}
    \cup {<<"CPURateControl", b>> : b \in info.CPURateControl.ControlFlags}
    \cup {<<"NetRateControl", b>> : b \in info.NetRateControl.ControlFlags}

\* The value fields of the limit blocks of info.
ValuesOf(info) ==
    [PerProcessUserTimeLimit |-> info.ExtendedLimits.BasicLimitInformation.PerProcessUserTimeLimit,
     PerJobUserTimeLimit     |-> info.ExtendedLimits.BasicLimitInformation.PerJobUserTimeLimit,
     MinimumWorkingSetSize   |-> info.ExtendedLimits.BasicLimitInformation.MinimumWorkingSetSize,
     MaximumWorkingSetSize   |-> info.ExtendedLimits.BasicLimitInformation.MaximumWorkingSetSize,
     ActiveProcessLimit      |-> info.ExtendedLimits.BasicLimitInformation.ActiveProcessLimit,
     Affinity                |-> info.ExtendedLimits.BasicLimitInformation.Affinity,
     PriorityClass           |-> info.ExtendedLimits.BasicLimitInformation.PriorityClass,
     SchedulingClass         |-> info.ExtendedLimits.BasicLimitInformation.SchedulingClass,
     ProcessMemoryLimit      |-> info.ExtendedLimits.ProcessMemoryLimit,
     JobMemoryLimit          |-> info.ExtendedLimits.JobMemoryLimit,
     CPURate                 |-> info.CPURateControl.Value,
     MaxBandwidth            |-> info.NetRateControl.MaxBandwidth,
     DscpTag                 |-> info.NetRateControl.DscpTag]

\* The flag bits a limit stands for.
OwnedBits(limit) ==
    CASE limit.type \in BasicTypes -> {<<"ExtendedLimits", limit.basicLimit>>}
      [] limit.type = "uiRestriction" -> {<<"UIRestrictions", limit.r>>}
      [] limit.type = "cpuLimit" ->
            {<<"CPURateControl", b>> : b \in {JOB_OBJECT_CPU_RATE_CONTROL_ENABLE,
                                              JOB_OBJECT_CPU_RATE_CONTROL_WEIGHT_BASED,
                                              JOB_OBJECT_CPU_RATE_CONTROL_HARD_CAP,
                                              JOB_OBJECT_CPU_RATE_CONTROL_NOTIFY,
                                              JOB_OBJECT_CPU_RATE_CONTROL_MIN_MAX_RATE}}
      [] limit.type = "netBandwidthLimit" ->
            {<<"NetRateControl", JOB_OBJECT_NET_RATE_CONTROL_ENABLE>>,
             <<"NetRateControl", JOB_OBJECT_NET_RATE_CONTROL_MAX_BANDWIDTH>>}
      [] limit.type = "netDSCPTagLimit" ->
            {<<"NetRateControl", JOB_OBJECT_NET_RATE_CONTROL_ENABLE>>,
             <<"NetRateControl", JOB_OBJECT_NET_RATE_CONTROL_DSCP_TAG>>}

\* The value fields a limit stands for.
OwnedValues(limit) ==
    CASE limit.type = "affinityLimit" -> {"Affinity"}
      [] limit.type = "jobMemoryLimit" -> {"JobMemoryLimit"}
      [] limit.type = "jobTimeLimit" -> {"PerJobUserTimeLimit"}
      [] limit.type = "processMemoryLimit" -> {"ProcessMemoryLimit"}
      [] limit.type = "processTimeLimit" -> {"PerProcessUserTimeLimit"}
      [] limit.type = "activeProcessLimit" -> {"ActiveProcessLimit"}
      [] limit.type = "workingSetLimit" -> {"MinimumWorkingSetSize", "MaximumWorkingSetSize"}
      [] limit.type = "priorityClassLimit" -> {"PriorityClass"}
      [] limit.type = "schedulingClassLimit" -> {"SchedulingClass"}
      [] limit.type = "cpuLimit" -> {"CPURate"}
      [] limit.type = "netBandwidthLimit" -> {"MaxBandwidth"}
      [] limit.type = "netDSCPTagLimit" -> {"DscpTag"}
      [] OTHER -> {}

\* Every flag bit and value field that belongs to none of the limits is the
\* same in the blocks before and after.
FrameKept(limits, before, after) ==
    LET bits == UNION {OwnedBits(limits[i]) : i \in 1..Len(limits)}
        vals == UNION {OwnedValues(limits[i]) : i \in 1..Len(limits)}
    IN  /\ BitsOf(before) \ bits = BitsOf(after) \ bits
        /\ \A n \in DOMAIN ValuesOf(before) \ vals : ValuesOf(before)[n] = ValuesOf(after)[n]

\* The positions of the log with the given call on the given class.
Calls(log, call, class) ==
    {i \in 1..Len(log) : log[i].call = call /\ log[i].class = class}

\* The positions of the log with the given call.
AllCalls(log, call) == {i \in 1..Len(log) : log[i].call = call}

Applied(r) == r.op \in {"SetLimit", "ResetLimit"} /\ r.err = nil

\* C1: a successful SetLimit or ResetLimit leaves every limit flag and value
\* of the OS job that belongs to none of the given limits as it was, also in
\* the blocks it writes and also when the cache was stale; and it makes no
\* set-info call on a block that none of the given limits lives in.
C1_Frame ==
    [][Applied(last') =>
          /\ FrameKept(last'.limits, os, os')
          /\ \A i \in AllCalls(last'.log, "SetInfo") :
                last'.log[i].class \in classesOf(last'.limits)]_vars

\* A SetLimit went through on a stale cache and a flag of another limit is
\* set in a block it wrote.
C1_Witness ==
    /\ last.op = "SetLimit" /\ last.err = nil /\ last.stale
    /\ \E k \in classesOf(last.limits) :
        \E b \in BitsOf(os) \ UNION {OwnedBits(last.limits[i]) : i \in 1..Len(last.limits)} :
            b[1] = infoPtr(k)

\* The OS calls of a successful apply of N limits over the blocks M.
ProtocolOK(limits, log) ==
    LET M == classesOf(limits) IN
    /\ \A k \in M : /\ Cardinality(Calls(log, "QueryInfo", k)) = 1
                    /\ Cardinality(Calls(log, "SetInfo", k)) = 1
    /\ Cardinality(AllCalls(log, "QueryInfo")) = Cardinality(M)
    /\ Cardinality(AllCalls(log, "SetInfo")) = Cardinality(M)
    /\ Cardinality(AllCalls(log, "merge")) = Len(limits)
    /\ \A k \in M : \A q \in Calls(log, "QueryInfo", k), m \in Calls(log, "merge", k) : q < m
    /\ \A m \in AllCalls(log, "merge"), x \in AllCalls(log, "SetInfo") : m < x

\* C2: a successful SetLimit or ResetLimit of N limits over M distinct blocks
\* makes exactly M queries and M set-info calls, one of each per block; the
\* query of a block comes before the first merge into that block's cache and
\* every set-info comes after all the merges.
C2_Protocol == Applied(last) => ProtocolOK(last.limits, last.log)

\* Three different limits went through in one call, the first and the last
\* of one block and the one between them of another.
C2_Witness ==
    /\ Applied(last)
    /\ Len(last.limits) = 3
    /\ last.limits[1] # last.limits[3]
    /\ resolveRequiredInfoClass(last.limits[1]) = resolveRequiredInfoClass(last.limits[3])
    /\ resolveRequiredInfoClass(last.limits[1]) # resolveRequiredInfoClass(last.limits[2])

Queried == last.op = "QueryLimits" /\ last.err = nil

\* C3: for each of the six basic flags and the eight UI restrictions L,
\* SetLimit(L) followed by QueryLimits gives L.IsSet(job) = true, and
\* ResetLimit(L) followed by QueryLimits gives L.IsSet(job) = false.
C3_FlagSetReset ==
    Queried =>
        \A l \in pending.limits :
            l.type \in {"basicLimit", "uiRestriction"} =>
                /\ pending.mode = "SetLimit" => IsSet(l, job)
                /\ pending.mode = "ResetLimit" => ~IsSet(l, job)

\* A flag that was set on the OS job was reset and then queried.
C3_Witness ==
    /\ Queried
    /\ Cardinality(U) = 1
    /\ pending.mode = "ResetLimit"
    /\ pending.had # {}
    /\ \E l \in pending.limits : l.type \in {"basicLimit", "uiRestriction"} /\ ~IsSet(l, job)

\* What the readers of a value-bearing limit return when it reads back as it
\* was built.
ReadsBack(l, j) ==
    /\ IsSet(l, j)
    /\ CASE l.type = "affinityLimit" -> Value(l, j) = l.affinity
         [] l.type = "jobMemoryLimit" -> Value(l, j) = l.jobMemory
         [] l.type = "processMemoryLimit" -> Value(l, j) = l.processMemory
         [] l.type = "activeProcessLimit" -> Value(l, j) = l.procs
         [] l.type = "schedulingClassLimit" -> Value(l, j) = l.schedClass
         [] l.type = "priorityClassLimit" -> Value(l, j) = l.prio
         [] l.type = "workingSetLimit" ->
                /\ Value(l, j) = TRUE
                /\ MinWorkingSetSize(j) = l.wsMin
                /\ MaxWorkingSetSize(j) = l.wsMax

ValueTypes ==
    {"affinityLimit", "jobMemoryLimit", "processMemoryLimit", "activeProcessLimit",
     "schedulingClassLimit", "priorityClassLimit", "workingSetLimit"}

\* C4: for the value-bearing limits (affinity, job memory, process memory,
\* active processes, scheduling class, priority class, working set),
\* SetLimit followed by QueryLimits gives IsSet = true and the reader returns
\* the value the limit was built with, for limits set alone, in successive
\* calls or in one call.
C4_ValueReadBack ==
    Queried /\ pending.mode = "SetLimit" =>
        \A l \in pending.limits : l.type \in ValueTypes => ReadsBack(l, job)

\* Two value-bearing limits were set and then queried.
C4_Witness ==
    /\ Queried
    /\ pending.mode = "SetLimit"
    /\ \E l1, l2 \in pending.limits :
        /\ l1.type = "jobMemoryLimit" /\ l2.type = "processMemoryLimit"
        /\ ReadsBack(l1, job) /\ ReadsBack(l2, job)

CPUModes ==
    {JOB_OBJECT_CPU_RATE_CONTROL_HARD_CAP, JOB_OBJECT_CPU_RATE_CONTROL_WEIGHT_BASED,
     JOB_OBJECT_CPU_RATE_CONTROL_MIN_MAX_RATE}

\* C5: after SetLimit calls with hard-cap, weight and min/max CPU limits, each
\* followed by QueryLimits, at most one of the three mode bits is set and
\* LimitCPU.LimitValue(job) is the rate of the sub-mode applied last, all
\* other fields zero.
C5_CPUModes ==
    /\ Cardinality(os.CPURateControl.ControlFlags \cap CPUModes) <= 1
    /\ Cardinality(job.JobInfo.CPURateControl.ControlFlags \cap CPUModes) <= 1
    /\ Queried /\ pending.mode = "SetLimit" =>
          \A l \in pending.limits :
              l.type = "cpuLimit" =>
                  cpuLimit_LimitValue(job) = CPURate(l.Min, l.Max, l.Weight, l.HardCap)

\* C6: after successful SetLimit calls, a successful ResetLimits() leaves the
\* job without limits: the HasLimits() that follows returns false.
C6_ResetLimitsClears ==
    last.op = "HasLimits" /\ last.err = nil /\ pending.mode = "ResetLimits" =>
        last.ret = "false"

\* ResetLimits went through on a job that had limits, and HasLimits followed.
C6_Witness ==
    /\ last.op = "HasLimits" /\ last.err = nil
    /\ pending.mode = "ResetLimits"
    /\ pending.had # {}

\* Create made the OS job and then failed to apply the limits.
CreateFailedOnLimits ==
    /\ last.op = "Create"
    /\ last.err # nil
    /\ last.log[1].call = "CreateJobObject" /\ last.log[1].ok

\* C7: when Create has made the OS job and applying the limits fails, the new
\* handle is closed exactly once before Create returns, Create returns nil,
\* and the error is the one of the limit application.
C7_CreateClosesHandle ==
    CreateFailedOnLimits =>
        LET h == last.log[1].class
            failed == {i \in 1..Len(last.log) : ~last.log[i].ok}
        IN  /\ Cardinality(Calls(last.log, "CloseHandle", h)) = 1
            /\ \A i \in Calls(last.log, "CloseHandle", h) : i = Len(last.log)
            /\ h \notin handles
            /\ last.ret = "nil"
            /\ \E i \in failed :
                /\ last.log[i].call \in {"QueryInfo", "SetInfo"}
                /\ last.err = NewSyscallError(IF last.log[i].call = "QueryInfo"
                                              THEN "QueryInformationJobObject"
                                              ELSE "SetInformationJobObject",
                                              ERROR_INVALID_PARAMETER)

\* Create failed on a set-info call after the OS job was made.
C7_Witness ==
    /\ CreateFailedOnLimits
    /\ \E i \in 1..Len(last.log) : last.log[i].call = "SetInfo" /\ ~last.log[i].ok

\* C8: the job returned by a successful Create or Start has every given
\* limit applied: after QueryLimits, IsSet is true for each of them.
C8_CreatedWithLimits ==
    Queried /\ pending.mode \in {"Create", "Start"} =>
        \A l \in pending.limits : IsSet(l, job)

\* Start returned a job with two limits and the job was queried.
C8_Witness ==
    /\ Queried
    /\ pending.mode = "Start"
    /\ Cardinality(pending.limits) = 2

InvalidHandleOps ==
    {"Assign", "Terminate", "Contains", "QueryLimits", "QueryCounters", "HasLimits",
     "ResetLimits", "ResetLimit", "SetLimit"}

\* C9: on a JobObject with an invalid handle, Assign, Terminate, Contains,
\* QueryLimits, QueryCounters, HasLimits, ResetLimits, ResetLimit(L) and
\* SetLimit(L) return an error after one failed OS call, make no set-info
\* call, and leave the cached blocks and the caller's Counters as they were.
C9_InvalidHandle ==
    [][(/\ job.Handle \notin handles
        /\ last'.op \in InvalidHandleOps
        /\ last'.op \in {"SetLimit", "ResetLimit"} => Len(last'.limits) > 0)
       => /\ last'.err # nil
          /\ Cardinality({i \in 1..Len(last'.log) : ~last'.log[i].ok}) = 1
          /\ AllCalls(last'.log, "SetInfo") = {}
          /\ job' = job
          /\ c' = c]_vars

\* QueryCounters failed on a closed handle of a job whose cache and whose
\* caller's Counters were filled before.
C9_Witness ==
    /\ job.Handle \notin handles
    /\ last.op = "QueryCounters"
    /\ last.err = NewSyscallError("QueryInformationJobObject", ERROR_INVALID_HANDLE)
    /\ job.JobInfo # JobInfo
    /\ c # Counters

\* The notifications on their way from the loop to the consumer, oldest first.
Published ==
    consumer.received \o sink.buf \o (IF loop.pc = "send" THEN <<loop.m>> ELSE <<>>)

\* C10: the notifications received from the sink are the events the loop
\* dequeued from the port, in that order, none dropped, duplicated, reordered
\* or batched, for every capacity of the sink and every pace of the consumer.
C10_Ordering ==
    Published = [i \in 1..Len(dequeued) |-> Notification(dequeued[i])]

\* The consumer has received every event, and they were not all alike.
C10_Witness ==
    /\ Len(consumer.received) = MaxEvents
    /\ consumer.received[1] # consumer.received[2]
    /\ sink.cap = MaxCap

\* C11: once Notify succeeded and the port handle is closed through
\* Subscription.Close only, every Close call, sequential or concurrent, returns
\* nil, and the port handle is released exactly once among the calls that
\* returned.
C11_CloseIdempotent ==
    ~port.direct /\ loop.pc # "idle" =>
        /\ \A t \in Closers : closer[t].ret \in {NotRead, nil}
        /\ port.releases <= 1
        /\ (\E t \in Closers : closer[t].ret = nil) => port.releases = 1 /\ s.closed
        /\ mu \in Closers => closer[mu].pc # "idle"

\* Both threads closed the subscription and both calls returned nil.
C11_Witness ==
    /\ ~port.direct
    /\ \A t \in Closers : closer[t].ret = nil /\ closer[t].pc = "idle"
    /\ port.releases = 1

\* C12: the channel of a Subscription is closed at most once, by the loop
\* on its way out and by no step of Close, the loop has ended once the channel
\* is closed, and nothing is published after the close: no send on a closed
\* channel and no second close.
C12_SinkClosedOnce ==
    /\ [](sink.closes <= 1 /\ loop.pc # "panic" /\ (sink.closed => loop.pc = "done"))
    /\ [][(sink'.closed /\ ~sink.closed
              => loop.pc = "close" /\ loop'.pc = "done" /\ closer' = closer /\ s' = s)
          /\ (sink.closed
              => sink'.closed /\ Len(sink'.buf) + Len(consumer'.received)
                                  = Len(sink.buf) + Len(consumer.received))]_vars

\* The loop closed the channel once after a Close call that returned nil, and
\* the consumer has received a notification.
C12_Witness ==
    /\ sink.closed
    /\ s.closed
    /\ sink.closes = 1
    /\ consumer.received # <<>>
    /\ \E t \in Closers : closer[t].ret = nil

\* The dequeue of the loop failed for a reason other than the closed port.
DequeueFailed == loop.err.errno = ERROR_INVALID_PARAMETER

\* C13: once Close returned nil on a subscription whose port was not closed
\* directly and whose dequeue had not failed, s.err is nil and Err() has
\* returned nil, wherever the loop was when Close ran.
C13_ErrNilAfterClose ==
    s.closed /\ ~port.direct /\ ~DequeueFailed =>
        s.err = nil /\ errRead \in {NotRead, nil}

C15_SinkEventuallyClosed == s.closed ~> sink.closed

\* A call of the given kind failed in the log.
FailedCall(log, call) == \E i \in AllCalls(log, call) : ~log[i].ok
StartOps == {"Start", "StartInJobObject"}

\* C16: StartInJobObject creates the process suspended and resumes a thread
\* of it only after the Assign to the job succeeded: ResumeThread is called
\* only after a successful AssignProcessToJobObject, which follows the
\* creation of the process, and the process it leaves is running only as a
\* member of the job and is suspended otherwise.
C16_ResumeAfterAssign ==
    last.op \in StartOps =>
        /\ \A i \in AllCalls(last.log, "ResumeThread") :
              \E j \in AllCalls(last.log, "AssignProcessToJobObject") : j < i /\ last.log[j].ok
        /\ \A i \in AllCalls(last.log, "AssignProcessToJobObject") :
              \E j \in AllCalls(last.log, "CreateProcess") : j < i /\ last.log[j].ok
        /\ proc.state = "running" => proc.inJob
        /\ proc.state # "none" /\ ~proc.inJob => proc.state = "suspended"

\* StartInJobObject returned nil: the process runs in the job.
C16_Witness ==
    /\ last.op = "StartInJobObject"
    /\ last.err = nil
    /\ proc = [state |-> "running", inJob |-> TRUE]
    /\ AllCalls(last.log, "ResumeThread") # {}

C18_CountersCopied ==
    last.op \in {"QueryCounters", "Counters"} /\ last.err = nil =>
        /\ Calls(last.log, "QueryInfo", JobObjectBasicAndIoAccountingInformation) = {1}
        /\ Len(last.log) = 1
        /\ job.JobInfo.AccountingInfo = os.AccountingInfo
        /\ \A f \in CounterNames : c[f] = os.AccountingInfo[f]

\* The codes the notification type table knows.
KnownCodes == (1..4) \cup (6..13)

\* C19: every dequeued event is published, whatever its code: the table
\* maps the twelve codes 1-4 and 6-13 to twelve different names, a packet of
\* one of them is published under its name, a packet of any other code (5
\* among them) under the decimal text of the code, and PID is the process id
\* of the packet.
C19_EveryCodePublished ==
    /\ DOMAIN notificationTypes = KnownCodes
    /\ Cardinality({notificationTypes[k] : k \in KnownCodes}) = 12
    /\ Len(Published) = Len(dequeued)
    /\ \A i \in 1..Len(dequeued) :
          /\ Published[i].PID = dequeued[i].pid
          /\ Published[i].Type = IF dequeued[i].mType \in KnownCodes
                                 THEN notificationTypes[dequeued[i].mType]
                                 ELSE ToString(dequeued[i].mType)

\* The consumer received the event of the unused code 5 as "5".
C19_Witness ==
    /\ dequeued # <<>>
    /\ dequeued[1] = [mType |-> 5, pid |-> 1]
    /\ consumer.received = <<[Type |-> "5", PID |-> 1]>>

\* C20: SetLimit() and ResetLimit() with no limit make no OS call, leave the
\* cache, the job and the handle as they were and return nil; Create(name)
\* with no limit, once the job object is created, makes no further OS call
\* and returns the job with an empty cache.
C20_NoLimitsNoCalls ==
    [][/\ (Idle /\ last'.op \in {"SetLimit", "ResetLimit"} /\ last'.limits = <<>>
            => /\ last'.log = <<>>
               /\ last'.err = nil
               /\ job' = job /\ os' = os /\ handles' = handles)
       /\ (Idle /\ last'.op = "Create" /\ last'.limits = <<>> /\ last'.log[1].ok
            => /\ Len(last'.log) = 1
               /\ last'.log[1].call = "CreateJobObject"
               /\ last'.err = nil /\ last'.ret = "job"
               /\ job'.JobInfo = JobInfo /\ os' = JobInfo
               /\ job'.Handle \in handles')]_vars

\* SetLimit() returned nil on a job whose cache holds limits.
C20_Witness ==
    /\ last.op = "SetLimit"
    /\ last.limits = <<>>
    /\ last.err = nil
    /\ job.JobInfo # JobInfo
    /\ job.Handle \in handles

\* The log of a ResetLimits that went through on a job whose blocks of the
\* classes flagged held flags: four queries, then one write per such block.
ResetLimitsLog(flagged) ==
    [i \in 1..4 |-> [call |-> "QueryInfo", class |-> LimitInfoClasses[i], ok |-> TRUE]]
    \o [i \in 1..Len(SelectSeq(LimitInfoClasses, LAMBDA k : k \in flagged)) |->
          [call |-> "SetInfo",
           class |-> SelectSeq(LimitInfoClasses, LAMBDA k : k \in flagged)[i],
           ok |-> TRUE]]

\* C21: ResetLimits() queries the four limit blocks, zeroes the whole cache
\* and writes exactly the blocks whose flag field the query found non-zero;
\* on a job without limits it writes nothing and returns nil; when a query
\* fails it returns the error, writes nothing and leaves every cached block
\* either as it was or as the query refreshed it.
C21_ResetLimits ==
    [][Idle /\ last'.op = "ResetLimits" =>
        /\ (last'.err = nil =>
               /\ last'.log = ResetLimitsLog(ClassesWithFlags(os))
               /\ job'.JobInfo = JobInfo
               /\ ClassesWithFlags(os') = {})
        /\ (ClassesWithFlags(os) = {} /\ ~FailedCall(last'.log, "QueryInfo") =>
               /\ last'.err = nil
               /\ AllCalls(last'.log, "SetInfo") = {}
               /\ os' = os)
        /\ (FailedCall(last'.log, "QueryInfo") =>
               /\ last'.err # nil
               /\ AllCalls(last'.log, "SetInfo") = {}
               /\ os' = os
               /\ job'.JobInfo.AccountingInfo = job.JobInfo.AccountingInfo
               /\ \A k \in AllLimitClasses :
                     job'.JobInfo[infoPtr(k)] = IF \E i \in Calls(last'.log, "QueryInfo", k) :
                                                        last'.log[i].ok
                                                 THEN os[infoPtr(k)]
                                                 ELSE job.JobInfo[infoPtr(k)])]_vars

\* ResetLimits returned nil on a job that had limits in some blocks and none
\* in others.
C21_Witness ==
    /\ last.op = "ResetLimits"
    /\ last.err = nil
    /\ last.had # {}
    /\ last.had # AllLimitClasses
    /\ AllCalls(last.log, "SetInfo") # {}
    /\ job.JobInfo = JobInfo

\* C22: HasLimits() queries the four limit blocks and returns true exactly
\* when a flag field of one of them is non-zero on the OS side at the call,
\* whatever the cache held; when a query fails it returns false and the
\* error.  It writes nothing.
C22_HasLimits ==
    [][Idle /\ last'.op = "HasLimits" =>
        /\ os' = os
        /\ AllCalls(last'.log, "SetInfo") = {}
        /\ (last'.err = nil =>
               /\ last'.log = ResetLimitsLog({})
               /\ last'.ret = Bool(ClassesWithFlags(os) # {})
               /\ \A k \in AllLimitClasses : job'.JobInfo[infoPtr(k)] = os[infoPtr(k)])
        /\ (last'.err # nil =>
               /\ last'.ret = "false"
               /\ FailedCall(last'.log, "QueryInfo"))]_vars

\* HasLimits returned true on a job whose limits another actor had set.
C22_Witness ==
    /\ last.op = "HasLimits"
    /\ last.err = nil
    /\ last.ret = "true"
    /\ pending = NoPending
    /\ job.Handle \in handles

\* C23: the JobObject that Open returns has an empty cache: IsSet is false
\* and Value is the zero value for every limit, whatever the OS-side job
\* holds, and reading is a plain read of the cache.  The cache changes only
\* in a call on the JobObject that made a successful query (or when the
\* JobObject is made), and after a successful QueryLimits the limits read
\* as they are on the OS side.
C23_StaleCacheSilent ==
    [][/\ (Idle /\ last'.op = "Open" /\ last'.err = nil =>
              /\ job'.JobInfo = JobInfo
              /\ os' = os
              /\ \A l \in U : /\ ~IsSet(l, job')
                               /\ Value(l, job') = Value(l, JobObject(InvalidHandle)))
       /\ (job'.JobInfo # job.JobInfo =>
              /\ Idle
              /\ \/ last'.op \in {"Create", "Open"}
                 \/ \E i \in AllCalls(last'.log, "QueryInfo") : last'.log[i].ok)
       /\ (Idle /\ last'.op = "QueryLimits" /\ last'.err = nil =>
              \A l \in U : /\ IsSet(l, job') = IsSet(l, [job' EXCEPT !.JobInfo = os])
                            /\ Value(l, job') = Value(l, [job' EXCEPT !.JobInfo = os]))]_vars

\* Open returned a JobObject of a job that has a limit set on the OS side.
C23_Witness ==
    /\ last.op = "Open"
    /\ last.err = nil
    /\ \E l \in U : IsSet(l, [job EXCEPT !.JobInfo = os]) /\ ~IsSet(l, job)

\* The loop has left the dequeue with an error.
LoopFailed == loop.pc \in {"handlePortErr", "close", "done"}

\* C24: when a dequeue has failed, the step that classifies the error leaves
\* s.err unset exactly when the error is ErrAbandoned and s.closed is true at
\* that step, and records the error as s.err otherwise; either way the loop
\* goes on to close the channel and dequeues nothing more.
C24_Classification ==
    [][/\ (loop.pc = "handlePortErr" /\ loop'.pc # "handlePortErr" =>
              /\ s.err = nil
              /\ loop.err # nil
              /\ (s'.err = nil <=> errorsIs(loop.err, ErrAbandoned) /\ s.closed)
              /\ (s'.err # nil => s'.err = loop.err)
              /\ s'.closed = s.closed
              /\ loop'.pc = "close")
       /\ (LoopFailed =>
              /\ LoopFailed'
              /\ loop'.err = loop.err
              /\ dequeued' = dequeued
              /\ Len(port'.queue) >= Len(port.queue))]_vars

\* The loop ended on an ErrAbandoned that Close had caused and recorded no
\* error.
C24_Witness ==
    /\ loop.pc = "done"
    /\ errorsIs(loop.err, ErrAbandoned)
    /\ s.closed
    /\ s.err = nil

\* C25: an ErrAbandoned that the loop got because Subscription.Close closed
\* the port handle under an outstanding dequeue is classified with s.closed
\* true: while the closing thread is between the release of the handle and
\* the assignment of the flag it holds s.mu, so the classification waits,
\* and the shutdown is never recorded as an error.
C25_CloseNotAnError ==
    errorsIs(loop.err, ErrAbandoned) /\ ~port.direct =>
        /\ loop.pc = "handlePortErr" /\ ~s.closed => mu \in Closers
        /\ loop.pc \in {"close", "done"} => s.closed /\ s.err = nil

\* The loop is about to classify the ErrAbandoned while the closing thread
\* has closed the handle and has not yet set the flag.
C25_Witness ==
    /\ loop.pc = "handlePortErr"
    /\ errorsIs(loop.err, ErrAbandoned)
    /\ ~port.direct
    /\ ~s.closed
    /\ \E t \in Closers : closer[t].pc = "closed = true" /\ mu = t

\* A step of Subscription.Close closes the port handle.
CloseReleasesPort == closer' # closer /\ port.state = "open" /\ port'.state = "closed"

\* C26 as stated: Subscription.Close sets the closed flag before it releases
\* the port handle.
C26_FlagBeforeRelease == [][CloseReleasesPort => s.closed]_vars

\* C26: Subscription.Close releases the port handle first and sets the closed
\* flag afterwards, both inside one critical section of s.mu: the handle is
\* released with the flag false and the lock held and kept, and the flag is
\* set by the lock holder on a handle that Close has released, as the lock is
\* given up.
C26_ReleaseBeforeFlag ==
    [][/\ (CloseReleasesPort =>
              ~s.closed /\ ~s'.closed /\ mu \in Closers /\ mu' = mu)
       /\ (s'.closed /\ ~s.closed =>
              /\ port.state = "closed" /\ port.releases = 1 /\ ~port.direct
              /\ port' = port
              /\ mu \in Closers /\ mu' = 0
              /\ closer[mu].pc = "closed = true" /\ closer'[mu].ret = nil)]_vars

\* A closing thread has released the port handle and has not yet set the flag.
C26_Witness ==
    /\ port.state = "closed"
    /\ ~port.direct
    /\ ~s.closed
    /\ \E t \in Closers : closer[t].pc = "closed = true" /\ mu = t

\* What the classification of the error of the loop records, given the flag.
Classified == IF errorsIs(loop.err, ErrAbandoned) /\ s.closed THEN nil ELSE loop.err

\* C27: the error of the loop is recorded before the channel is closed: once
\* the channel is closed s.err is the classification of the loop and no
\* step changes it, and an Err() made after the consumer saw the channel
\* closed returns it, whatever Close and Err calls are made.
C27_ErrBeforeSinkClosed ==
    /\ [](sink.closed => loop.err # nil /\ s.err = Classified)
    /\ [][(sink.closed => s'.err = s.err /\ loop'.err = loop.err)
          /\ (consumer.sawClosed /\ errRead' # errRead => errRead' = s.err)
          /\ (consumer.sawClosed /\ errRead # NotRead /\ errRead = s.err
                 => errRead' = errRead)]_vars

\* The consumer saw the channel closed, Err() returned the recorded error of
\* the loop, and a Close call has returned an error of its own.
C27_Witness ==
    /\ consumer.sawClosed
    /\ s.err # nil
    /\ errRead = s.err
    /\ \E t \in Closers : closer[t].ret \notin {NotRead, nil}

\* The limit l reads from the cache of j as the one applied last.
WonBy(l, j) ==
    IF l.type = "cpuLimit"
    THEN /\ cpuLimit_LimitValue(j) = CPURate(l.Min, l.Max, l.Weight, l.HardCap)
         /\ j.JobInfo.CPURateControl.ControlFlags \cap CPUModes = cpuLimit_f(l)
         /\ cpuLimit_f(l) # {}
    ELSE ReadsBack(l, j)

\* C28 as stated: a successful SetLimit merges its limits in argument order,
\* so of the limits of the call that write the same field the last one is
\* the one the cache and the OS hold afterwards: of CPU limits of different
\* sub-modes only the mode and rate of the last, of a value-bearing limit
\* given twice the last value.
C28_LaterLimitWins ==
    [][/\ Idle /\ last'.op = "SetLimit" /\ last'.err = nil
       /\ \E i, j \in 1..Len(last'.limits) :
             i < j /\ Key(last'.limits[i]) = Key(last'.limits[j])
                   /\ last'.limits[i] # last'.limits[j]
       => \A l \in Effective(last'.limits) :
              WonBy(l, job') /\ WonBy(l, [job' EXCEPT !.JobInfo = os'])]_vars

\* C29: after a successful SetLimit or ResetLimit, with no other actor
\* acting during the call, the cached copy of every block the call touched
\* equals the OS-side block, so IsSet and Value of the limits of the call
\* read from the cache what they would read from the OS-side job.
C29_CacheEqualsOS ==
    [][Idle /\ last'.op \in {"SetLimit", "ResetLimit"} /\ last'.err = nil
       => /\ \A k \in classesOf(last'.limits) :
                  job'.JobInfo[infoPtr(k)] = os'[infoPtr(k)]
          /\ \A i \in 1..Len(last'.limits) :
                  /\ IsSet(last'.limits[i], job')
                        = IsSet(last'.limits[i], [job' EXCEPT !.JobInfo = os'])
                  /\ Value(last'.limits[i], job')
                        = Value(last'.limits[i], [job' EXCEPT !.JobInfo = os'])]_vars

\* A SetLimit or ResetLimit succeeded on a cache that differed from the OS
\* in a block of the call, and left a limit set in the job.
C29_Witness ==
    /\ last.op \in {"SetLimit", "ResetLimit"}
    /\ last.err = nil
    /\ last.stale
    /\ last.limits # <<>>
    /\ os # JobInfo

\* The entries of the snapshot that the process pid owns.
OwnedBy(pid) == {i \in 1..Len(threads) : threads[i].OwnerProcessID = pid}

\* The threads the last call resumed.
Resumed == {last.log[i].class : i \in {i \in AllCalls(last.log, "ResumeThread") : last.log[i].ok}}

\* C30 as stated: ResumeProcess(pid), when no OS call fails, resumes exactly
\* one thread, the first entry of the snapshot that pid owns, and returns
\* "no threads found" only when the snapshot has no entry that pid owns.
C30_ResumesFirstThread ==
    last.op = "ResumeProcess" /\ last.err \in {nil, ErrNoThreadsFound} =>
        /\ last.err = ErrNoThreadsFound <=> OwnedBy(last.ret) = {}
        /\ last.err = nil =>
               Resumed = {threads[CHOOSE i \in OwnedBy(last.ret) :
                                     \A j \in OwnedBy(last.ret) : i <= j].ThreadID}

\* The CPU rate block of j holds the limit l as the claim has it stored, and
\* reads back as the rate l was built from.
RateStored(l, j) ==
    /\ cpuLimit_LimitValue(j) = CPURate(l.Min, l.Max, l.Weight, l.HardCap)
    /\ l.HardCap = 0 /\ l.Weight = 0 =>
          /\ j.JobInfo.CPURateControl.Value = l.Min + 2^16 * l.Max
          /\ JOB_OBJECT_CPU_RATE_CONTROL_MIN_MAX_RATE
                \in j.JobInfo.CPURateControl.ControlFlags

\* C31 as stated: after a successful SetLimit of one CPU limit, a hard cap
\* or a weight v >= 1 reads back as CPURate{HardCap: v} or CPURate{Weight: v},
\* and a min/max limit is stored as min + 65536 * max with the MIN_MAX_RATE
\* flag and reads back as CPURate{Min: min, Max: max}, for every pair of
\* 16-bit values, from the cache and from the OS side.
C31_RateRoundTrip ==
    [][Idle /\ last'.op = "SetLimit" /\ last'.err = nil
       => \A l \in Effective(last'.limits) :
              l.type = "cpuLimit" =>
                  RateStored(l, job') /\ RateStored(l, [job' EXCEPT !.JobInfo = os'])]_vars

\* The time limit l, built from the duration d, reads from j as d rounded
\* toward zero to a whole number of ticks.
ReadsTruncated(l, d, j) ==
    /\ IsSet(l, j)
    /\ Value(l, j) = d - (d % timeFraction)
    /\ Value(l, j) <= d
    /\ d % timeFraction = 0 => Value(l, j) = d

NotifyReturns == Idle /\ last'.op = "Notify"

\* C33: when Notify fails it returns a nil Subscription and the error, starts
\* no loop and leaves the sink alone; when the association failed, the port
\* handle it created is closed again, and when the creation failed there is
\* no port handle.  When Notify succeeds it starts the loop, and returns
\* before any event is dequeued.  The loop starts in no other step, and while
\* no loop was started nothing is sent on the sink and the sink is not closed.
C33_NotifyFailure ==
    /\ [](loop.pc = "idle" => sink.buf = <<>> /\ ~sink.closed /\ consumer.received = <<>>)
    /\ [][/\ (NotifyReturns /\ last'.err # nil =>
                 /\ last'.ret = "nil"
                 /\ loop' = NoLoop /\ sink' = sink /\ consumer' = consumer
                 /\ port'.state # "open"
                 /\ (port'.state = "closed") = (Calls(last'.log, "CreateIoCompletionPort", 0) # {}
                                                  /\ ~FailedCall(last'.log, "CreateIoCompletionPort"))
                 /\ port'.state = "closed" =>
                        /\ port'.releases = 1
                        /\ FailedCall(last'.log, "AssociateCompletionPort"))
          /\ (NotifyReturns /\ last'.err = nil =>
                 /\ last'.ret = "subscription"
                 /\ port'.state = "open"
                 /\ loop.pc = "idle" /\ loop'.pc = "NextMessage"
                 /\ dequeued' = <<>> /\ sink' = sink)
          /\ (loop.pc = "idle" /\ loop'.pc # "idle" => NotifyReturns /\ last'.err = nil)]_vars

\* Notify failed in the association and has closed the port it had created.
C33_Witness ==
    /\ last.op = "Notify"
    /\ last.err # nil
    /\ handles # {}
    /\ port.state = "closed"
    /\ loop.pc = "idle"

\* The step is a return of SetLimit or ResetLimit.
ApplyReturns == Idle /\ last'.op \in {"SetLimit", "ResetLimit"}

\* C34: in a SetLimit or ResetLimit every query-info call precedes every
\* set-info call; when a query-info fails, the call returns the error of that
\* query, has made no set-info call, and the cached block whose query failed
\* is as it was before the call.
C34_QueryFailure ==
    [][ApplyReturns =>
          /\ \A i \in AllCalls(last'.log, "QueryInfo"), j \in AllCalls(last'.log, "SetInfo") :
                 i < j
          /\ FailedCall(last'.log, "QueryInfo") =>
                 /\ last'.err # nil
                 /\ last'.err.syscall = "QueryInformationJobObject"
                 /\ AllCalls(last'.log, "SetInfo") = {}
                 /\ os' = os
                 /\ \A i \in AllCalls(last'.log, "QueryInfo") :
                        ~last'.log[i].ok =>
                            job'.JobInfo[infoPtr(last'.log[i].class)]
                                = job.JobInfo[infoPtr(last'.log[i].class)]]_vars

\* The query of the second block of a call failed after the limit of the
\* first block was merged into the cache.
C34_Witness ==
    /\ last.op \in {"SetLimit", "ResetLimit"}
    /\ last.err # nil
    /\ \E i, j \in AllCalls(last.log, "QueryInfo") :
          i < j /\ last.log[i].ok /\ ~last.log[j].ok

\* The blocks of the limit classes the log reports as written.
Written(log) == {log[i].class : i \in {i \in AllCalls(log, "SetInfo") : log[i].ok}}

\* C35 as stated: when a SetLimit or ResetLimit that touches several blocks
\* returns an error, every OS-side block is as it was before the call.
C35_AllOrNothing ==
    [][ApplyReturns /\ last'.err # nil /\ Cardinality(classesOf(last'.limits)) > 1
       => os' = os]_vars

\* C35 amended: when a SetLimit or ResetLimit returns an error, the blocks
\* whose set-info succeeded before the failing call hold the merged content
\* of the cache, every other OS-side block is as it was before the call, and
\* no set-info follows the one that failed.
C35_WrittenUntilFailure ==
    [][ApplyReturns /\ last'.err # nil
       => /\ \A i \in 1..4 :
                os'[infoPtr(LimitInfoClasses[i])]
                    = IF LimitInfoClasses[i] \in Written(last'.log)
                      THEN job'.JobInfo[infoPtr(LimitInfoClasses[i])]
                      ELSE os[infoPtr(LimitInfoClasses[i])]
          /\ \A i, j \in AllCalls(last'.log, "SetInfo") : ~last'.log[i].ok => j <= i
          /\ Written(last'.log) \subseteq classesOf(last'.limits)]_vars

\* A call on two blocks returned the error of its second set-info, after the
\* first had changed the OS-side block.
C35_Witness ==
    /\ last.op \in {"SetLimit", "ResetLimit"}
    /\ last.err # nil
    /\ Written(last.log) # {}
    /\ FailedCall(last.log, "SetInfo")
    /\ \E k \in Written(last.log) : os[infoPtr(k)] # JobInfo[infoPtr(k)]

\* The OS job read through a JobObject.
OSJob(info) == [Handle |-> InvalidHandle, JobInfo |-> info]

\* Flows a and b have both returned from a successful SetLimit, each of a
\* different flag.
BothReturned(a, b) ==
    /\ a # b
    /\ actors[a].pc = "done" /\ actors[a].err = nil
    /\ actors[b].pc = "done" /\ actors[b].err = nil
    /\ actors[a].limit # actors[b].limit

\* C36 as stated: when two JobObjects of one OS job have each returned from a
\* successful SetLimit of a different flag of the same block, both flags are
\* set on the OS side, however the steps of the calls interleaved.
C36_NoLostUpdate ==
    \A a, b \in DOMAIN actors :
        BothReturned(a, b) =>
            IsSet(actors[a].limit, OSJob(os)) /\ IsSet(actors[b].limit, OSJob(os))

\* C36 amended: the write-back of a successful SetLimit makes the OS-side
\* block the block the call queried with its own flag merged in: its flag is
\* set, and a flag stays set when no other handle wrote the block between the
\* query and the write-back of the call.
C36_WriteBackOfQueried ==
    [][\A a \in DOMAIN actors :
          actors[a].pc = "queried" /\ actors'[a].pc = "done" /\ actors'[a].err = nil
          => LET ptr == infoPtr(resolveRequiredInfoClass(actors[a].limit)) IN
             /\ os'[ptr] = actors[a].job.JobInfo[ptr]
             /\ IsSet(actors[a].limit, OSJob(os'))
             /\ set(actors[a].limit, OSJob(os)).JobInfo[ptr] = actors[a].job.JobInfo[ptr]
                   => \A l \in U : IsSet(l, OSJob(os)) => IsSet(l, OSJob(os'))]_vars

\* Two calls interleaved, both returned successfully, and the flag of one of
\* them is not set on the OS side.
C36_Witness ==
    \E a, b \in DOMAIN actors :
        BothReturned(a, b) /\ ~IsSet(actors[a].limit, OSJob(os))

\* The error of a CloseHandle on a handle that is not open.
CloseHandleFailed == NewSyscallError("CloseHandle", ERROR_INVALID_HANDLE)

\* C37: when the release of the port handle fails inside Close, Close returns
\* that error, gives up the mutex and leaves s.closed false; s.closed becomes
\* true only after a successful release; a Close that finds s.closed false
\* goes on to the release instead of returning; and an error of the loop
\* classified while s.closed is false is recorded as s.err, the abandoned
\* wait and the invalid handle included.
C37_FailedRelease ==
    [][/\ \A t \in Closers :
            /\ (closer[t].pc = "Port.Close" /\ closer'[t] # closer[t] /\ port.state # "open" =>
                    /\ closer'[t] = [pc |-> "idle", ret |-> CloseHandleFailed]
                    /\ mu' = 0
                    /\ ~s.closed /\ s' = s
                    /\ port' = port)
            /\ (closer[t].pc = "idle" /\ closer'[t] # closer[t] /\ ~s.closed =>
                    closer'[t].pc = "Port.Close")
       /\ (s'.closed /\ ~s.closed =>
              \E t \in Closers : closer[t].pc = "closed = true" /\ port.releases >= 1)
       /\ (loop.pc = "handlePortErr" /\ loop'.pc # loop.pc /\ ~s.closed =>
              s'.err = loop.err /\ s'.err # nil)]_vars

\* The port was closed directly, two calls of Close have returned the error
\* of the release, and the loop has recorded its failed dequeue.
C37_Witness ==
    /\ port.direct
    /\ ~s.closed
    /\ \A t \in Closers : closer[t].pc = "idle" /\ closer[t].ret = CloseHandleFailed
    /\ loop.pc \in {"close", "done"}
    /\ s.err # nil /\ s.err.errno \in {ErrAbandoned, ERROR_INVALID_HANDLE}

\* C38: the mutex of the subscription is held only by a thread between the
\* Lock of its Close and its return, the steps of that thread wait for
\* nothing, and Err is a critical section without a wait: the mutex is held
\* exactly while a thread is inside Close, and it becomes free again, that
\* is, the thread returns, whatever the loop and the consumer do.
C38_CloseReturns ==
    /\ [](mu # 0 => /\ closer[mu].pc \in {"Port.Close", "closed = true"}
                    /\ \A t \in Closers \ {mu} : closer[t].pc = "idle")
    /\ [](mu = 0 => \A t \in Closers : closer[t].pc = "idle")
    /\ (mu # 0) ~> (mu = 0)

\* A Close has returned nil while the loop is blocked in its send: the
\* channel is full and the consumer does not receive.
C38_Witness ==
    /\ Len(sink.buf) = sink.cap
    /\ loop.pc = "send"
    /\ mu = 0
    /\ s.closed
    /\ \E t \in Closers : closer[t].ret = nil

\* The job call that the operation makes with the process handle.
JobCallOf(op) == IF op = "Assign" THEN "AssignProcessToJobObject" ELSE "IsProcessInJob"

\* C39: Assign and Contains call OpenProcess once.  When it succeeds they
\* make the job call once and then close the process handle exactly once,
\* whether the job call succeeded or failed, and return the result of the
\* job call; when it fails they make no job call, close nothing and return
\* the error of OpenProcess.
C39_ProcessHandle ==
    last.op \in {"Assign", "Contains"} =>
        /\ AllCalls(last.log, "OpenProcess") = {1}
        /\ IF last.log[1].ok
           THEN /\ AllCalls(last.log, JobCallOf(last.op)) = {2}
                /\ AllCalls(last.log, "CloseHandle(hProcess)") = {3}
                /\ Len(last.log) = 3
                /\ (last.err = nil) = last.log[2].ok
                /\ last.err # nil => last.err.syscall = JobCallOf(last.op)
           ELSE /\ Len(last.log) = 1
                /\ last.err # nil
                /\ last.err.syscall = "OpenProcess"
                /\ last.op = "Contains" => last.ret = "false"

\* Assign opened the process, the assignment failed, and the process handle
\* was closed.
C39_Witness ==
    /\ last.op = "Assign"
    /\ Len(last.log) = 3
    /\ last.log[1].ok
    /\ ~last.log[2].ok
    /\ last.log[3].call = "CloseHandle(hProcess)"

====
